---------------------------- MODULE Spec2Model ----------------------------
(***************************************************************************)
(* TSMonkey: the Monkey language pipeline (lexer, Pratt parser, tree       *)
(* walking evaluator).  Source text is a TLA+ string, a character is a     *)
(* string of length one and the absent character ZERO is the empty string. *)
(***************************************************************************)
EXTENDS Integers, Sequences, FiniteSets, TLC

VARIABLES
    lexer,      \* Lexer: [input, position, readPosition, ch]
    token,      \* the Token the last Lexer.nextToken call returned
    calls,      \* number of Lexer.nextToken calls made so far
    source,     \* the source handed to the parser: [text, shape]
    parser,     \* Parser: [lexer, curToken, peekToken, errors, abort]
    program,    \* the Program parseProgram returned, Null before
    outcome,    \* "constructed", then "returned", "thrown" or "diverged"
    round,      \* 1 for the source itself, 2 for its rendering parsed again
    first,      \* round 1's result, kept for round 2: [errors, rendering, program]
    heap,       \* the heap evaluate left behind: [envs, arrays, nextRef, depth, abort, log]
    returned,   \* what evaluate returned, Null before
    status,     \* "idle", then "returned", "thrown" or "overflow"
    output      \* what the caller printed of the result, Null before

lexVars == <<lexer, token, calls>>

parseVars == <<source, parser, program, outcome, round, first>>

evalVars == <<heap, returned, status, output>>

vars == <<lexer, token, calls, source, parser, program, outcome, round, first,
          heap, returned, status, output>>

(***************************************************************************)
(* Bounds of the model.                                                    *)
(***************************************************************************)
MaxLexLen == 3          \* longest source text handed to the Lexer alone
MaxEofCalls == 2        \* nextToken calls explored after the input's end
MaxChainOps == 3        \* most infix operators in an enumerated operator chain
MaxLexemes == 3         \* most lexemes in an enumerated lexeme sequence

(***************************************************************************)
(* token.ts                                                                *)
(***************************************************************************)
Token(tokenType, literal) == [tokenType |-> tokenType, literal |-> literal]

lookupIdent(value) ==
    CASE value = "fn" -> "FUNCTION"
      [] value = "let" -> "LET"
      [] value = "true" -> "TRUE"
      [] value = "false" -> "FALSE"
      [] value = "if" -> "IF"
      [] value = "else" -> "ELSE"
      [] value = "return" -> "RETURN"
      [] OTHER -> "IDENT"

(***************************************************************************)
(* lexer.ts                                                                *)
(***************************************************************************)
ZERO == ""

WHITE_SPACES == {" ", "\t", "\n", "\r"}

\* The characters the model's sources use for which toLowerCase and
\* toUpperCase differ.
Letters == {"a", "b", "c", "d", "e", "f", "g", "h", "i", "j", "k", "l", "m",
            "n", "o", "p", "q", "r", "s", "t", "u", "v", "w", "x", "y", "z",
            "A", "B", "C", "D", "E", "F", "G", "H", "I", "J", "K", "L", "M",
            "N", "O", "P", "Q", "R", "S", "T", "U", "V", "W", "X", "Y", "Z"}

Digits == {"0", "1", "2", "3", "4", "5", "6", "7", "8", "9"}

isDigit(c) == c \in Digits

isIdentifier(value) == value \in Letters \/ value = "_"

\* String.prototype.substring(a, b): both ends clamped to the string, and
\* swapped when a > b.
Clamp(s, i) == IF i < 0 THEN 0 ELSE IF i > Len(s) THEN Len(s) ELSE i

substring(s, a, b) ==
    LET Ordered(lo, hi) == IF lo <= hi THEN SubSeq(s, lo + 1, hi)
                           ELSE SubSeq(s, hi + 1, lo)
    IN  Ordered(Clamp(s, a), Clamp(s, b))

peakChar(l) ==
    IF l.readPosition >= Len(l.input)
    THEN ZERO
    ELSE SubSeq(l.input, l.readPosition + 1, l.readPosition + 1)

readChar(l) ==
    [l EXCEPT !.ch = peakChar(l),
              !.position = l.readPosition,
              !.readPosition = l.readPosition + 1]

\* new Lexer(input): the fields' initial values, then one readChar.
NewLexer(input) ==
    readChar([input |-> input, position |-> 0, readPosition |-> 0, ch |-> ZERO])

RECURSIVE skipWhitespace(_)
skipWhitespace(l) ==
    IF l.ch \in WHITE_SPACES THEN skipWhitespace(readChar(l)) ELSE l

\* readValue's loop: readChar while the predicate holds of the current
\* character (kind "ident" is isIdentifier, kind "digit" is isDigit).
RECURSIVE readWhile(_, _)
readWhile(l, kind) ==
    IF (kind = "ident" /\ isIdentifier(l.ch)) \/ (kind = "digit" /\ isDigit(l.ch))
    THEN readWhile(readChar(l), kind)
    ELSE l

readValue(l, kind) ==
    LET Read(l2) == [l |-> l2, value |-> substring(l.input, l.position, l2.position)]
    IN  Read(readWhile(l, kind))

readIdentifier(l) == readValue(l, "ident")

readNumber(l) == readValue(l, "digit")

RECURSIVE readStringLoop(_)
readStringLoop(l) ==
    LET Read(l2) == IF l2.ch = "\"" \/ l2.ch = ZERO THEN l2 ELSE readStringLoop(l2)
    IN  Read(readChar(l))

readString(l) ==
    LET start == l.position + 1
        Read(l2) == [l |-> l2, value |-> substring(l.input, start, l2.position)]
    IN  Read(readStringLoop(l))

\* Lexer.token(tokenType)
tokenOf(l, tokenType) == Token(tokenType, l.ch)

endsWithEqual(l, oneChar, twoChars, duplicateChars) ==
    IF peakChar(l) = "="
    THEN LET currentChar == l.ch
             Read(l2) ==
                 [l |-> l2,
                  token |-> Token(twoChars, IF duplicateChars
                                            THEN currentChar \o currentChar
                                            ELSE currentChar \o l2.ch)]
         IN  Read(readChar(l))
    ELSE [l |-> l, token |-> tokenOf(l, oneChar)]

SingleCharTokens == {";", ":", ",", "(", ")", "{", "}", "[", "]",
                     "+", "-", "*", "/", "<", ">"}

\* The part of nextToken's switch that breaks: the token, and the lexer
\* before the readChar that follows the switch.
switchToken(l) ==
    CASE l.ch = "=" -> endsWithEqual(l, "=", "==", TRUE)
      [] l.ch = "!" -> endsWithEqual(l, "!", "!=", FALSE)
      [] l.ch \in SingleCharTokens -> [l |-> l, token |-> tokenOf(l, l.ch)]
      [] l.ch = "\"" ->
            LET Text(r) == [l |-> r.l, token |-> Token("STRING", r.value)]
            IN  Text(readString(l))
      [] l.ch = ZERO -> [l |-> l, token |-> Token("EOF", "")]

\* nextToken's default branch: each alternative returns without the
\* readChar that follows the switch.
defaultToken(l) ==
    LET Word(r) == [l |-> r.l, token |-> Token(lookupIdent(r.value), r.value)]
        Number(r) == [l |-> r.l, token |-> Token("INT", r.value)]
    IN  IF isIdentifier(l.ch) THEN Word(readIdentifier(l))
        ELSE IF isDigit(l.ch) THEN Number(readNumber(l))
        ELSE [l |-> l, token |-> Token("ILLEGAL", l.ch)]

\* A plausible slip: the switch without its `case ZERO`, so that the end of
\* the input falls into the default branch.
nextTokenNoEofCase(l0) ==
    LET Break(r) == [l |-> readChar(r.l), token |-> r.token]
        Switch(l) == IF l.ch \in ({"=", "!", "\""} \cup SingleCharTokens)
                     THEN Break(switchToken(l))
                     ELSE defaultToken(l)
    IN  Switch(skipWhitespace(l0))

\* Lexer.nextToken(): the lexer after the call and the token returned.
nextToken(l0) ==
    LET Break(r) == [l |-> readChar(r.l), token |-> r.token]
        Switch(l) == IF l.ch \in ({"=", "!", "\"", ZERO} \cup SingleCharTokens)
                     THEN Break(switchToken(l))
                     ELSE defaultToken(l)
    IN  Switch(skipWhitespace(l0))

(***************************************************************************)
(* ast.ts: a node is a record tagged by its class; Null is the host null.  *)
(***************************************************************************)
Null == [type |-> "null"]

Identifier(tok, value) == [type |-> "Identifier", token |-> tok, value |-> value]

StringLiteral(tok, value) == [type |-> "StringLiteral", token |-> tok, value |-> value]

IntegerLiteral(tok, value) == [type |-> "IntegerLiteral", token |-> tok, value |-> value]

BooleanLiteral(tok, value) == [type |-> "BooleanLiteral", token |-> tok, value |-> value]

LetStatement(tok, name, value) ==
    [type |-> "LetStatement", token |-> tok, name |-> name, value |-> value]

ExpressionStatement(tok, expression) ==
    [type |-> "ExpressionStatement", token |-> tok, expression |-> expression]

ReturnStatement(tok, returnValue) ==
    [type |-> "ReturnStatement", token |-> tok, returnValue |-> returnValue]

PrefixExpression(tok, operator, right) ==
    [type |-> "PrefixExpression", token |-> tok, operator |-> operator, right |-> right]

InfixExpression(tok, left, operator, right) ==
    [type |-> "InfixExpression", token |-> tok, left |-> left,
     operator |-> operator, right |-> right]

\* An ExpressionList is null or an array: [isNull, items].
NullList == [isNull |-> TRUE, items |-> <<>>]

List(items) == [isNull |-> FALSE, items |-> items]

CallExpression(tok, fun, args) ==
    [type |-> "CallExpression", token |-> tok, fun |-> fun, args |-> args]

ArrayLiteral(tok, elements) ==
    [type |-> "ArrayLiteral", token |-> tok, elements |-> elements]

IndexExpression(tok, left, index) ==
    [type |-> "IndexExpression", token |-> tok, left |-> left, index |-> index]

BlockStatement(tok, statements) ==
    [type |-> "BlockStatement", token |-> tok, statements |-> statements]

IfExpression(tok, condition, consequence, alternative) ==
    [type |-> "IfExpression", token |-> tok, condition |-> condition,
     consequence |-> consequence, alternative |-> alternative]

FunctionLiteral(tok, parameters, body) ==
    [type |-> "FunctionLiteral", token |-> tok, parameters |-> parameters,
     body |-> body, name |-> ""]

\* pairs: the Map's entries in insertion order, each <<key, value>>.
HashLiteral(tok, pairs) == [type |-> "HashLiteral", token |-> tok, pairs |-> pairs]

Program(statements) == [type |-> "Program", statements |-> statements]

(***************************************************************************)
(* parser.ts                                                               *)
(***************************************************************************)
LOWEST == 0
EQUALS == 1
LESS_GREATER == 2
SUM == 3
PRODUCT == 4
PREFIX == 5
CALL == 6
INDEX == 7

\* Parser: [lexer, curToken, peekToken, errors, abort].  abort is "none"
\* while the call is running normally, "thrown" once an Error was thrown
\* and "diverged" once a loop was found to repeat its own state.
Aborted(p) == p.abort # "none"

\* The value a sub-parser returns with the parser it leaves behind.
R(p, e) == [p |-> p, e |-> e]

parserNextToken(p) ==
    LET After(r) ==
            [p EXCEPT !.curToken = p.peekToken, !.peekToken = r.token, !.lexer = r.l]
    IN  After(nextToken(p.lexer))

\* new Parser(lexer)
NewParser(l) ==
    parserNextToken(parserNextToken(
        [lexer |-> l, curToken |-> Token("ILLEGAL", ""),
         peekToken |-> Token("ILLEGAL", ""), errors |-> <<>>, abort |-> "none"]))

peekTokenIs(p, tokenType) == p.peekToken.tokenType = tokenType

curTokenIs(p, tokenType) == p.curToken.tokenType = tokenType

peekError(p, tokenType) ==
    [p EXCEPT !.errors = Append(@, "Expected next token to be " \o tokenType
                                   \o ", got " \o p.peekToken.tokenType \o " instead")]

\* expectPeek: the parser after the call and the boolean returned.
expectPeek(p, tokenType) ==
    IF peekTokenIs(p, tokenType)
    THEN [p |-> parserNextToken(p), ok |-> TRUE]
    ELSE [p |-> peekError(p, tokenType), ok |-> FALSE]

noPrefixParserError(p, tokenType) ==
    [p EXCEPT !.errors = Append(@, "No prefix parser for " \o tokenType \o " function")]

findPrecedence(tokenType) ==
    CASE tokenType \in {"==", "!="} -> EQUALS
      [] tokenType \in {"<", ">"} -> LESS_GREATER
      [] tokenType \in {"+", "-"} -> SUM
      [] tokenType \in {"/", "*"} -> PRODUCT
      [] tokenType = "(" -> CALL
      [] tokenType = "[" -> INDEX
      [] OTHER -> LOWEST

peekPrecedence(p) == findPrecedence(p.peekToken.tokenType)

curPrecedence(p) == findPrecedence(p.curToken.tokenType)

\* The keys of prefixParsers and of infixParsers.
prefixParsers == {"INT", "TRUE", "FALSE", "IDENT", "!", "-", "(", "[", "IF",
                  "FUNCTION", "STRING", "{"}

infixParsers == {"+", "-", "/", "*", "==", "!=", "<", ">", "(", "["}

DigitValue(c) ==
    CASE c = "0" -> 0 [] c = "1" -> 1 [] c = "2" -> 2 [] c = "3" -> 3
      [] c = "4" -> 4 [] c = "5" -> 5 [] c = "6" -> 6 [] c = "7" -> 7
      [] c = "8" -> 8 [] c = "9" -> 9

RECURSIVE DigitRun(_, _)
DigitRun(s, acc) ==
    IF s # "" /\ isDigit(Head(s))
    THEN DigitRun(Tail(s), 10 * acc + DigitValue(Head(s)))
    ELSE acc

\* parseInt(s) for the literals the lexer produces: the leading digit run,
\* NaN when there is none.
parseInt(s) ==
    IF s # "" /\ isDigit(Head(s))
    THEN [nan |-> FALSE, value |-> DigitRun(s, 0)]
    ELSE [nan |-> TRUE, value |-> 0]

RECURSIVE parseExpression(_, _)
RECURSIVE parseStatement(_)

parseIntegerLiteral(p) ==
    LET tok == p.curToken
        value == parseInt(tok.literal)
    IN  IF value.nan
        THEN R([p EXCEPT !.errors = Append(@, "could not parse " \o tok.literal
                                              \o " as integer")], Null)
        ELSE R(p, IntegerLiteral(tok, value.value))

parseBooleanLiteral(p) == R(p, BooleanLiteral(p.curToken, curTokenIs(p, "TRUE")))

parseIdentifier(p) == R(p, Identifier(p.curToken, p.curToken.literal))

parseStringLiteral(p) == R(p, StringLiteral(p.curToken, p.curToken.literal))

\* In the definitions below a value that is used more than once is the
\* parameter of a local operator (LET After(r) == ... IN After(call)), so
\* that the call that computes it is written, and evaluated, once.
parsePrefixExpression(p) ==
    LET tok == p.curToken
        operator == tok.literal
        After(r) == IF Aborted(r.p) THEN R(r.p, Null)
                    ELSE R(r.p, PrefixExpression(tok, operator, r.e))
    IN  After(parseExpression(parserNextToken(p), PREFIX))

parseGroupExpression(p) ==
    LET After(r) ==
            LET Closed(ep) == IF ~ep.ok THEN R(ep.p, Null) ELSE R(ep.p, r.e)
            IN  IF Aborted(r.p) THEN R(r.p, Null) ELSE Closed(expectPeek(r.p, ")"))
    IN  After(parseExpression(parserNextToken(p), LOWEST))

\* parseExpressionList's while loop over the commas.
RECURSIVE expressionListLoop(_, _)
expressionListLoop(p, args) ==
    LET After(r) == IF Aborted(r.p) THEN R(r.p, args)
                    ELSE expressionListLoop(r.p, Append(args, r.e))
    IN  IF peekTokenIs(p, ",")
        THEN After(parseExpression(parserNextToken(parserNextToken(p)), LOWEST))
        ELSE R(p, args)

\* parseExpressionList(end): e is the ExpressionList returned.
parseExpressionList(p, end) ==
    LET Closed(ep, args) == IF ~ep.ok THEN R(ep.p, NullList) ELSE R(ep.p, List(args))
        Rest(rl) == IF Aborted(rl.p) THEN R(rl.p, NullList)
                    ELSE Closed(expectPeek(rl.p, end), rl.e)
        After(r) == IF Aborted(r.p) THEN R(r.p, NullList)
                    ELSE Rest(expressionListLoop(r.p, <<r.e>>))
    IN  IF peekTokenIs(p, end)
        THEN R(parserNextToken(p), List(<<>>))
        ELSE After(parseExpression(parserNextToken(p), LOWEST))

parseArrayLiteral(p) ==
    LET tok == p.curToken
        After(r) == IF Aborted(r.p) THEN R(r.p, Null) ELSE R(r.p, ArrayLiteral(tok, r.e))
    IN  After(parseExpressionList(p, "]"))

\* The same (lexer, curToken, peekToken) at two heads of a statement loop:
\* every later iteration repeats the one between them, the loop never ends.
SameInput(p, q) ==
    p.lexer = q.lexer /\ p.curToken = q.curToken /\ p.peekToken = q.peekToken

RECURSIVE blockStatementLoop(_, _, _)
blockStatementLoop(p, tok, statements) ==
    LET Step(p2, pushed) ==
            IF SameInput(p2, p) THEN R([p2 EXCEPT !.abort = "diverged"], Null)
            ELSE blockStatementLoop(p2, tok, pushed)
        After(r) ==
            IF Aborted(r.p) THEN R(r.p, Null)
            ELSE Step(parserNextToken(r.p),
                      IF r.e # Null THEN Append(statements, r.e) ELSE statements)
    IN  IF ~curTokenIs(p, "}") /\ ~curTokenIs(p, "EOF")
        THEN After(parseStatement(p))
        ELSE R(p, BlockStatement(tok, List(statements)))

parseBlockStatement(p) == blockStatementLoop(parserNextToken(p), p.curToken, <<>>)

parseIfExpression(p) ==
    LET tok == p.curToken
        Alternative(alt, condition, consequence) ==
            IF Aborted(alt.p) THEN R(alt.p, Null)
            ELSE R(alt.p, IfExpression(tok, condition, consequence, alt.e))
        ElseBrace(e4, condition, consequence) ==
            IF ~e4.ok THEN R(e4.p, Null)
            ELSE Alternative(parseBlockStatement(e4.p), condition, consequence)
        Consequence(cons, condition) ==
            IF Aborted(cons.p) THEN R(cons.p, Null)
            ELSE IF peekTokenIs(cons.p, "ELSE")
            THEN ElseBrace(expectPeek(parserNextToken(cons.p), "{"), condition, cons.e)
            ELSE R(cons.p, IfExpression(tok, condition, cons.e, Null))
        Brace(e3, condition) ==
            IF ~e3.ok THEN R(e3.p, Null)
            ELSE Consequence(parseBlockStatement(e3.p), condition)
        Closed(e2, condition) ==
            IF ~e2.ok THEN R(e2.p, Null) ELSE Brace(expectPeek(e2.p, "{"), condition)
        Condition(rc) ==
            IF Aborted(rc.p) THEN R(rc.p, Null)
            ELSE Closed(expectPeek(rc.p, ")"), rc.e)
        Opened(e1) ==
            IF ~e1.ok THEN R(e1.p, Null)
            ELSE Condition(parseExpression(parserNextToken(e1.p), LOWEST))
    IN  Opened(expectPeek(p, "("))

RECURSIVE functionParametersLoop(_, _)
functionParametersLoop(p, parameters) ==
    LET After(p2) ==
            functionParametersLoop(
                p2, Append(parameters, Identifier(p2.curToken, p2.curToken.literal)))
    IN  IF peekTokenIs(p, ",")
        THEN After(parserNextToken(parserNextToken(p)))
        ELSE R(p, parameters)

\* parseFunctionParameters: e is the array of Identifiers returned, or null.
parseFunctionParameters(p) ==
    LET Closed(ep, parameters) ==
            IF ~ep.ok THEN R(ep.p, NullList) ELSE R(ep.p, List(parameters))
        Rest(rl) == Closed(expectPeek(rl.p, ")"), rl.e)
        First(p2) ==
            Rest(functionParametersLoop(
                     p2, <<Identifier(p2.curToken, p2.curToken.literal)>>))
    IN  IF peekTokenIs(p, ")")
        THEN R(parserNextToken(p), List(<<>>))
        ELSE First(parserNextToken(p))

parseFunctionLiteral(p) ==
    LET tok == p.curToken
        Body(body, parameters) ==
            IF Aborted(body.p) THEN R(body.p, Null)
            ELSE R(body.p, FunctionLiteral(tok, parameters, body.e))
        Brace(e2, parameters) ==
            IF ~e2.ok THEN R(e2.p, Null)
            ELSE Body(parseBlockStatement(e2.p), parameters)
        Parameters(params) == Brace(expectPeek(params.p, "{"), params.e)
        Opened(e1) ==
            IF ~e1.ok THEN R(e1.p, Null) ELSE Parameters(parseFunctionParameters(e1.p))
    IN  Opened(expectPeek(p, "("))

RECURSIVE hashLiteralLoop(_, _, _)
hashLiteralLoop(p, tok, pairs) ==
    LET Comma(e2, pairs2) ==
            IF ~e2.ok THEN R(e2.p, Null) ELSE hashLiteralLoop(e2.p, tok, pairs2)
        Value(value, key) ==
            IF Aborted(value.p) THEN R(value.p, Null)
            ELSE IF key # Null /\ value.e # Null
            THEN IF peekTokenIs(value.p, "}")
                 THEN hashLiteralLoop(value.p, tok, Append(pairs, <<key, value.e>>))
                 ELSE Comma(expectPeek(value.p, ","), Append(pairs, <<key, value.e>>))
            ELSE R([value.p EXCEPT !.abort = "thrown"], Null)
        Colon(e1, key) ==
            IF ~e1.ok THEN R(e1.p, Null)
            ELSE Value(parseExpression(parserNextToken(e1.p), LOWEST), key)
        Key(key) ==
            IF Aborted(key.p) THEN R(key.p, Null)
            ELSE Colon(expectPeek(key.p, ":"), key.e)
        Closed(e3) == IF ~e3.ok THEN R(e3.p, Null) ELSE R(e3.p, HashLiteral(tok, pairs))
    IN  IF ~peekTokenIs(p, "}")
        THEN Key(parseExpression(parserNextToken(p), LOWEST))
        ELSE Closed(expectPeek(p, "}"))

parseHashLiteral(p) == hashLiteralLoop(p, p.curToken, <<>>)

\* A plausible slip: the right operand parsed one level lower, which makes
\* operators of equal precedence associate to the right.
parseInfixExpressionRightAssoc(p, left) ==
    LET tok == p.curToken
        operator == tok.literal
        precedence == curPrecedence(p)
        After(r) == IF Aborted(r.p) THEN R(r.p, Null)
                    ELSE R(r.p, InfixExpression(tok, left, operator, r.e))
    IN  After(parseExpression(parserNextToken(p), precedence - 1))

parseInfixExpression(p, left) ==
    LET tok == p.curToken
        operator == tok.literal
        precedence == curPrecedence(p)
        After(r) == IF Aborted(r.p) THEN R(r.p, Null)
                    ELSE R(r.p, InfixExpression(tok, left, operator, r.e))
    IN  After(parseExpression(parserNextToken(p), precedence))

parseCallExpression(p, expression) ==
    LET tok == p.curToken
        After(r) == IF Aborted(r.p) THEN R(r.p, Null)
                    ELSE R(r.p, CallExpression(tok, expression, r.e))
    IN  After(parseExpressionList(p, ")"))

parseIndexExpression(p, left) ==
    LET tok == p.curToken
        Closed(ep, index) ==
            IF ~ep.ok THEN R(ep.p, Null) ELSE R(ep.p, IndexExpression(tok, left, index))
        After(r) == IF Aborted(r.p) THEN R(r.p, Null)
                    ELSE Closed(expectPeek(r.p, "]"), r.e)
    IN  After(parseExpression(parserNextToken(p), LOWEST))

\* prefixParsers.get(curToken.tokenType)()
prefixParse(p) ==
    LET tt == p.curToken.tokenType
    IN  CASE tt = "INT" -> parseIntegerLiteral(p)
          [] tt \in {"TRUE", "FALSE"} -> parseBooleanLiteral(p)
          [] tt = "IDENT" -> parseIdentifier(p)
          [] tt \in {"!", "-"} -> parsePrefixExpression(p)
          [] tt = "(" -> parseGroupExpression(p)
          [] tt = "[" -> parseArrayLiteral(p)
          [] tt = "IF" -> parseIfExpression(p)
          [] tt = "FUNCTION" -> parseFunctionLiteral(p)
          [] tt = "STRING" -> parseStringLiteral(p)
          [] tt = "{" -> parseHashLiteral(p)

\* infixParsers.get(curToken.tokenType)(left)
infixParse(p, left) ==
    LET tt == p.curToken.tokenType
    IN  CASE tt = "(" -> parseCallExpression(p, left)
          [] tt = "[" -> parseIndexExpression(p, left)
          [] OTHER -> parseInfixExpression(p, left)

\* parseExpression's while loop.
RECURSIVE infixLoop(_, _, _)
infixLoop(p, left, precedence) ==
    LET After(r) == IF Aborted(r.p) THEN R(r.p, Null)
                    ELSE infixLoop(r.p, r.e, precedence)
    IN  IF ~peekTokenIs(p, ";") /\ precedence < peekPrecedence(p)
        THEN IF p.peekToken.tokenType \notin infixParsers
             THEN R(p, left)
             ELSE After(infixParse(parserNextToken(p), left))
        ELSE R(p, left)

parseExpression(p, precedence) ==
    LET After(r) == IF Aborted(r.p) THEN R(r.p, Null)
                    ELSE infixLoop(r.p, r.e, precedence)
    IN  IF p.curToken.tokenType \notin prefixParsers
        THEN R(noPrefixParserError(p, p.curToken.tokenType), Null)
        ELSE After(prefixParse(p))

parseLetStatement(p) ==
    LET tok == p.curToken
        Value(r, name) ==
            IF Aborted(r.p) THEN R(r.p, Null)
            ELSE R(IF peekTokenIs(r.p, ";") THEN parserNextToken(r.p) ELSE r.p,
                   LetStatement(tok, name, r.e))
        Assign(e2, name) ==
            IF ~e2.ok THEN R(e2.p, Null)
            ELSE Value(parseExpression(parserNextToken(e2.p), LOWEST), name)
        Name(e1) ==
            IF ~e1.ok THEN R(e1.p, Null)
            ELSE Assign(expectPeek(e1.p, "="),
                        Identifier(e1.p.curToken, e1.p.curToken.literal))
    IN  Name(expectPeek(p, "IDENT"))

RECURSIVE skipSemicolons(_)
skipSemicolons(p) ==
    IF peekTokenIs(p, ";") THEN skipSemicolons(parserNextToken(p)) ELSE p

parseReturnStatement(p) ==
    LET tok == p.curToken
        After(r) == IF Aborted(r.p) THEN R(r.p, Null)
                    ELSE R(skipSemicolons(r.p), ReturnStatement(tok, r.e))
    IN  After(parseExpression(parserNextToken(p), LOWEST))

parseExpressionStatement(p) ==
    LET tok == p.curToken
        After(r) ==
            IF Aborted(r.p) THEN R(r.p, Null)
            ELSE R(IF peekTokenIs(r.p, ";") THEN parserNextToken(r.p) ELSE r.p,
                   ExpressionStatement(tok, r.e))
    IN  After(parseExpression(p, LOWEST))

parseStatement(p) ==
    CASE p.curToken.tokenType = "LET" -> parseLetStatement(p)
      [] p.curToken.tokenType = "RETURN" -> parseReturnStatement(p)
      [] OTHER -> parseExpressionStatement(p)

RECURSIVE programLoop(_, _)
programLoop(p, statements) ==
    LET Step(p2, pushed) ==
            IF SameInput(p2, p) THEN R([p2 EXCEPT !.abort = "diverged"], Null)
            ELSE programLoop(p2, pushed)
        After(r) ==
            IF Aborted(r.p) THEN R(r.p, Null)
            ELSE Step(parserNextToken(r.p),
                      IF r.e # Null THEN Append(statements, r.e) ELSE statements)
    IN  IF p.curToken.tokenType # "EOF"
        THEN After(parseStatement(p))
        ELSE R(p, Program(statements))

\* Parser.parseProgram(): e is the Program returned (Null when the call
\* does not return).
parseProgram(p) == programLoop(p, <<>>)

(***************************************************************************)
(* ast.ts: toString                                                        *)
(***************************************************************************)
RECURSIVE toString(_)

\* `${node}` in a template string: null renders as "null".
Template(n) == IF n = Null THEN "null" ELSE toString(n)

\* `${node?.toString()}`: null renders as "undefined".
Optional(n) == IF n = Null THEN "undefined" ELSE toString(n)

\* Array.prototype.join: a null element renders as the empty string.
RECURSIVE join(_, _)
join(items, separator) ==
    IF items = <<>> THEN ""
    ELSE LET head == IF Head(items) = Null THEN "" ELSE toString(Head(items))
         IN  IF Len(items) = 1 THEN head
             ELSE head \o separator \o join(Tail(items), separator)

\* `${list?.join(separator)}`
OptionalJoin(list, separator) ==
    IF list.isNull THEN "undefined" ELSE join(list.items, separator)

LetStatementToString(n) ==
    n.token.literal \o " " \o Template(n.name) \o " = "
        \o (IF n.value # Null THEN toString(n.value) ELSE "")

ExpressionStatementToString(n) ==
    IF n.expression # Null THEN toString(n.expression) ELSE ""

ReturnStatementToString(n) ==
    n.token.literal \o " "
        \o (IF n.returnValue # Null THEN toString(n.returnValue) ELSE "")

PrefixExpressionToString(n) == "(" \o n.operator \o Template(n.right) \o ")"

InfixExpressionToString(n) ==
    "(" \o Template(n.left) \o " " \o n.operator \o " " \o Template(n.right) \o ")"

\* A plausible slip: join('') as in FunctionLiteral.toString.
CallExpressionToStringJoinEmpty(n) ==
    Optional(n.fun) \o "(" \o OptionalJoin(n.args, "") \o ")"

CallExpressionToString(n) ==
    Optional(n.fun) \o "(" \o OptionalJoin(n.args, ", ") \o ")"

ArrayLiteralToString(n) == "[" \o OptionalJoin(n.elements, ", ") \o "]"

IndexExpressionToString(n) ==
    "(" \o Optional(n.left) \o "[" \o Optional(n.index) \o "])"

BlockStatementToString(n) ==
    IF n.statements.isNull THEN "" ELSE join(n.statements.items, "")

IfExpressionToString(n) ==
    "if " \o Template(n.condition) \o " " \o Template(n.consequence) \o " "
        \o (IF n.alternative # Null THEN "else " \o Template(n.alternative) ELSE "")

FunctionLiteralToString(n) ==
    n.token.literal
        \o (IF Len(n.name) # 0 THEN "<" \o n.name \o ">" ELSE "")
        \o "(" \o OptionalJoin(n.parameters, "") \o ") " \o Template(n.body)

\* HashLiteral declares no toString: Object.prototype.toString.
HashLiteralToString(n) == "[object Object]"

toString(n) ==
    CASE n.type = "Program" -> join(n.statements, "")
      [] n.type \in {"Identifier", "StringLiteral"} -> n.value
      [] n.type = "LetStatement" -> LetStatementToString(n)
      [] n.type = "ExpressionStatement" -> ExpressionStatementToString(n)
      [] n.type = "ReturnStatement" -> ReturnStatementToString(n)
      [] n.type \in {"IntegerLiteral", "BooleanLiteral"} -> n.token.literal
      [] n.type = "PrefixExpression" -> PrefixExpressionToString(n)
      [] n.type = "InfixExpression" -> InfixExpressionToString(n)
      [] n.type = "CallExpression" -> CallExpressionToString(n)
      [] n.type = "ArrayLiteral" -> ArrayLiteralToString(n)
      [] n.type = "IndexExpression" -> IndexExpressionToString(n)
      [] n.type = "BlockStatement" -> BlockStatementToString(n)
      [] n.type = "IfExpression" -> IfExpressionToString(n)
      [] n.type = "FunctionLiteral" -> FunctionLiteralToString(n)
      [] n.type = "HashLiteral" -> HashLiteralToString(n)

(***************************************************************************)
(* The host's numbers.  A number is [num, den]: an exact fraction in       *)
(* lowest terms with den > 0, or den = 0 for Infinity (num = 1),           *)
(* -Infinity (num = -1) and NaN (num = 0).  The rounding of doubles and    *)
(* the sign of zero are not modelled.                                      *)
(***************************************************************************)
Abs(n) == IF n < 0 THEN -n ELSE n

Sign(n) == IF n < 0 THEN -1 ELSE IF n > 0 THEN 1 ELSE 0

RECURSIVE GCD(_, _)
GCD(a, b) == IF b = 0 THEN a ELSE GCD(b, a % b)

Fraction(n, d) ==
    IF d = 0 THEN [num |-> Sign(n), den |-> 0]
    ELSE LET g == GCD(Abs(n), Abs(d))
         IN  [num |-> Sign(d) * (n \div g), den |-> Abs(d) \div g]

Num(n) == [num |-> n, den |-> 1]

NaN == [num |-> 0, den |-> 0]

IsNaN(x) == x.den = 0 /\ x.num = 0

IsInfinite(x) == x.den = 0 /\ x.num # 0

NumNeg(x) == [num |-> -x.num, den |-> x.den]

NumAdd(x, y) ==
    CASE IsNaN(x) \/ IsNaN(y) -> NaN
      [] IsInfinite(x) /\ IsInfinite(y) -> IF x.num = y.num THEN x ELSE NaN
      [] IsInfinite(x) -> x
      [] IsInfinite(y) -> y
      [] OTHER -> Fraction(x.num * y.den + y.num * x.den, x.den * y.den)

NumSub(x, y) == NumAdd(x, NumNeg(y))

NumMul(x, y) ==
    CASE IsNaN(x) \/ IsNaN(y) -> NaN
      [] IsInfinite(x) \/ IsInfinite(y) -> Fraction(Sign(x.num) * Sign(y.num), 0)
      [] OTHER -> Fraction(x.num * y.num, x.den * y.den)

NumDiv(x, y) ==
    CASE IsNaN(x) \/ IsNaN(y) -> NaN
      [] IsInfinite(x) /\ IsInfinite(y) -> NaN
      [] IsInfinite(x) -> Fraction(x.num * (IF y.num < 0 THEN -1 ELSE 1), 0)
      [] IsInfinite(y) -> Num(0)
      [] OTHER -> Fraction(x.num * y.den, x.den * y.num)

NumLess(x, y) ==
    CASE IsNaN(x) \/ IsNaN(y) -> FALSE
      [] IsInfinite(x) /\ IsInfinite(y) -> x.num < y.num
      [] IsInfinite(x) -> x.num < 0
      [] IsInfinite(y) -> y.num > 0
      [] OTHER -> x.num * y.den < y.num * x.den

\* === on numbers
NumEqual(x, y) == ~IsNaN(x) /\ x = y

IsInteger(x) == x.den = 1

DigitChar(d) ==
    CASE d = 0 -> "0" [] d = 1 -> "1" [] d = 2 -> "2" [] d = 3 -> "3"
      [] d = 4 -> "4" [] d = 5 -> "5" [] d = 6 -> "6" [] d = 7 -> "7"
      [] d = 8 -> "8" [] d = 9 -> "9"

RECURSIVE NatToString(_)
NatToString(n) ==
    IF n < 10 THEN DigitChar(n) ELSE NatToString(n \div 10) \o DigitChar(n % 10)

IntToString(n) == IF n < 0 THEN "-" \o NatToString(-n) ELSE NatToString(n)

\* The digits after the decimal point of rem/den, for a den whose only
\* prime factors are 2 and 5.
RECURSIVE DecimalDigits(_, _)
DecimalDigits(rem, den) ==
    IF rem = 0 THEN ""
    ELSE DigitChar((rem * 10) \div den) \o DecimalDigits((rem * 10) % den, den)

RECURSIVE StripFactor(_, _)
StripFactor(n, f) == IF n % f = 0 THEN StripFactor(n \div f, f) ELSE n

\* Number.prototype.toString.  A fraction with no finite decimal expansion
\* is written num/den, which is not what the host prints but, like it, is a
\* different text for a different number.
NumberToString(x) ==
    CASE IsNaN(x) -> "NaN"
      [] IsInfinite(x) -> IF x.num > 0 THEN "Infinity" ELSE "-Infinity"
      [] IsInteger(x) -> IntToString(x.num)
      [] StripFactor(StripFactor(x.den, 2), 5) = 1 ->
            (IF x.num < 0 THEN "-" ELSE "")
                \o NatToString(Abs(x.num) \div x.den) \o "."
                \o DecimalDigits(Abs(x.num) % x.den, x.den)
      [] OTHER -> IntToString(x.num) \o "/" \o IntToString(x.den)

(***************************************************************************)
(* objects.ts: an MObject is a record tagged by its class name (what       *)
(* typeDesc returns); ref is the object's identity.  Null is the host      *)
(* null, Undefined the host undefined.                                     *)
(***************************************************************************)
Undefined == [type |-> "undefined"]

IsNullish(obj) == obj = Null \/ obj = Undefined

typeDesc(mObject) == IF IsNullish(mObject) THEN "null" ELSE mObject.type

MInteger(value, ref) == [type |-> "MInteger", value |-> value, ref |-> ref]

MBoolean(value, ref) == [type |-> "MBoolean", value |-> value, ref |-> ref]

MString(value, ref) == [type |-> "MString", value |-> value, ref |-> ref]

MReturnValue(value, ref) == [type |-> "MReturnValue", value |-> value, ref |-> ref]

MError(message, ref) == [type |-> "MError", message |-> message, ref |-> ref]

\* env: the index of the captured Environment in the heap
MFunction(parameters, body, env, ref) ==
    [type |-> "MFunction", parameters |-> parameters, body |-> body,
     env |-> env, ref |-> ref]

\* elements: the index of the host array in the heap
MArray(elements, ref) == [type |-> "MArray", elements |-> elements, ref |-> ref]

HashPair(key, value) == [key |-> key, value |-> value]

\* pairs: the Map's entries in insertion order, each [hashKey, pair]
MHash(pairs, ref) == [type |-> "MHash", pairs |-> pairs, ref |-> ref]

MBuiltinFunction(name, ref) == [type |-> "MBuiltinFunction", fn |-> name, ref |-> ref]

\* The objects that exist before any evaluation: the references 1 to 8.
M_NULL == [type |-> "MNull", ref |-> 1]

TRUE_ == MBoolean(TRUE, 2)

FALSE_ == MBoolean(FALSE, 3)

NULL == M_NULL

builtinNames == {"len", "push", "first", "last", "rest"}

builtins(name) ==
    CASE name = "len" -> MBuiltinFunction("len", 4)
      [] name = "push" -> MBuiltinFunction("push", 5)
      [] name = "first" -> MBuiltinFunction("first", 6)
      [] name = "last" -> MBuiltinFunction("last", 7)
      [] name = "rest" -> MBuiltinFunction("rest", 8)

FirstFreeRef ==
    Cardinality({M_NULL.ref, TRUE_.ref, FALSE_.ref}
                    \cup {builtins(name).ref : name \in builtinNames}) + 1

\* left === right on objects
Same(a, b) == IF IsNullish(a) \/ IsNullish(b) THEN a = b ELSE a.ref = b.ref

IsMValue(obj) == ~IsNullish(obj) /\ obj.type \in {"MInteger", "MBoolean", "MString"}

IsA(obj, class) == ~IsNullish(obj) /\ obj.type = class

\* MValue.inspect() of the three subclasses
MValueInspect(obj) ==
    CASE obj.type = "MInteger" -> NumberToString(obj.value)
      [] obj.type = "MBoolean" -> IF obj.value THEN "true" ELSE "false"
      [] obj.type = "MString" -> obj.value

\* A plausible slip: the key is what inspect() renders.
hashKeyInspect(obj) == MValueInspect(obj)

\* MValue.toString() of the three subclasses
MValueToString(obj) ==
    CASE obj.type = "MInteger" -> "MInteger(value=" \o NumberToString(obj.value) \o ")"
      [] obj.type = "MBoolean" ->
            "MBoolean(value=" \o (IF obj.value THEN "true" ELSE "false") \o ")"
      [] obj.type = "MString" -> "MString(value=" \o obj.value \o ")"

hashKey(obj) == MValueToString(obj)

(***************************************************************************)
(* evaluator.ts.  The host's heap during one evaluate call is the record   *)
(*   [envs, arrays, nextRef, depth, abort, log]                            *)
(* envs: the Environments, each [store, outer] with outer = 0 for null;    *)
(* arrays: the host arrays behind the MArrays; nextRef: the identity of    *)
(* the next object created; depth: the number of applyFunction calls on    *)
(* the stack; abort: "none", "thrown" once the host threw an Error, or     *)
(* "overflow" once the stack held more than MaxDepth calls; log: what the  *)
(* evaluation did, in order.  Every operator takes the heap and returns    *)
(* its value with the heap it leaves behind: [v, st].                      *)
(***************************************************************************)
MaxDepth == 4

V(v, st) == [v |-> v, st |-> st]

Thrown(st) == [st EXCEPT !.abort = "thrown"]

Halted(st) == st.abort # "none"

Log(st, event) == [st EXCEPT !.log = Append(@, event)]

Allocated(st) == [st EXCEPT !.nextRef = @ + 1]

EmptyStore == [n \in {} |-> Null]

\* new Environment(store, outer): the new Environment is the last of envs
Environment(st, outer) ==
    [st EXCEPT !.envs = Append(@, [store |-> EmptyStore, outer |-> outer])]

newEnvironment(st) == Environment(st, 0)

newEnclosedEnvironment(st, outer) == Environment(st, outer)

\* Map.get: undefined for a key the Map does not hold
StoreGet(store, name) == IF name \in DOMAIN store THEN store[name] ELSE Undefined

\* The result of Environment.get and the Environment whose store gave it
\* (0 when no store did).
RECURSIVE get(_, _, _)
get(st, env, name) ==
    LET obj == StoreGet(st.envs[env].store, name)
    IN  IF obj = Undefined /\ st.envs[env].outer # 0
        THEN get(st, st.envs[env].outer, name)
        ELSE IF obj # Undefined
             THEN [value |-> obj, foundIn |-> env]
             ELSE [value |-> Null, foundIn |-> 0]

\* A plausible slip: set as an assignment, which writes to the Environment
\* that binds the name already.
setWhereBound(st, env, name, value) ==
    LET Stored(after) ==
            Log(after, [kind |-> "set", env |-> env, name |-> name, value |-> value,
                        before |-> st.envs, after |-> after.envs])
        At(bound) ==
            Stored([st EXCEPT !.envs[bound].store =
                                  [n \in DOMAIN @ \cup {name} |->
                                      IF n = name THEN value ELSE @[n]]])
        Found(found) == At(IF found.foundIn # 0 THEN found.foundIn ELSE env)
    IN  Found(get(st, env, name))

set(st, env, name, value) ==
    LET store == st.envs[env].store
        stored == [n \in DOMAIN store \cup {name} |->
                      IF n = name THEN value ELSE store[n]]
        Stored(after) ==
            Log(after, [kind |-> "set", env |-> env, name |-> name, value |-> value,
                        before |-> st.envs, after |-> after.envs])
    IN  Stored([st EXCEPT !.envs[env].store = stored])

put(st, env, name, value) == V(value, set(st, env, name, value))

ifNotErrorRuns(obj) == ~IsNullish(obj) /\ ~IsA(obj, "MError")

isError(obj) == IF obj # Null THEN IsA(obj, "MError") ELSE FALSE

NewError(st, message) == V(MError(message, st.nextRef), Allocated(st))

NewInteger(st, value) == V(MInteger(value, st.nextRef), Allocated(st))

evalBangOperatorExpression(right) ==
    CASE Same(right, TRUE_) -> FALSE_
      [] Same(right, FALSE_) -> TRUE_
      [] Same(right, NULL) -> TRUE_
      [] OTHER -> FALSE_

evalMinusPrefixOperatorExpression(st, right) ==
    IF IsA(right, "MInteger")
    THEN NewInteger(st, NumNeg(right.value))
    ELSE NewError(st, "unknown operator: -" \o typeDesc(right))

\* A plausible slip: a new MBoolean for every result (0: an identity that is
\* neither TRUE's nor FALSE's).
toMonkeyNewBoolean(bool) == MBoolean(bool, 0)

toMonkey(bool) == IF bool THEN TRUE_ ELSE FALSE_

evalIntegerInfixExpression(st, operator, left, right) ==
    CASE operator = "+" -> NewInteger(st, NumAdd(left.value, right.value))
      [] operator = "-" -> NewInteger(st, NumSub(left.value, right.value))
      [] operator = "*" -> NewInteger(st, NumMul(left.value, right.value))
      [] operator = "/" -> NewInteger(st, NumDiv(left.value, right.value))
      [] operator = "<" -> V(toMonkey(NumLess(left.value, right.value)), st)
      [] operator = ">" -> V(toMonkey(NumLess(right.value, left.value)), st)
      [] operator = "==" -> V(toMonkey(NumEqual(left.value, right.value)), st)
      [] operator = "!=" -> V(toMonkey(~NumEqual(left.value, right.value)), st)
      [] OTHER -> NewError(st, "unknown operator: " \o typeDesc(left) \o " "
                                  \o operator \o " " \o typeDesc(right))

\* A plausible slip: evalInfixExpression without its test of the operands'
\* types.
evalInfixExpressionNoMismatch(st, operator, left, right) ==
    CASE IsA(left, "MInteger") /\ IsA(right, "MInteger") ->
            evalIntegerInfixExpression(st, operator, left, right)
      [] operator = "==" -> V(toMonkey(Same(left, right)), st)
      [] operator = "!=" -> V(toMonkey(~Same(left, right)), st)
      [] IsA(left, "MString") /\ IsA(right, "MString") /\ operator = "+" ->
            V(MString(left.value \o right.value, st.nextRef), Allocated(st))
      [] OTHER -> NewError(st, "unknown operator: " \o typeDesc(left) \o " "
                                  \o operator \o " " \o typeDesc(right))

evalInfixExpression(st, operator, left, right) ==
    CASE IsA(left, "MInteger") /\ IsA(right, "MInteger") ->
            evalIntegerInfixExpression(st, operator, left, right)
      [] operator = "==" -> V(toMonkey(Same(left, right)), st)
      [] operator = "!=" -> V(toMonkey(~Same(left, right)), st)
      [] typeDesc(left) # typeDesc(right) ->
            NewError(st, "type mismatch: " \o typeDesc(left) \o " "
                            \o operator \o " " \o typeDesc(right))
      [] IsA(left, "MString") /\ IsA(right, "MString") /\ operator = "+" ->
            V(MString(left.value \o right.value, st.nextRef), Allocated(st))
      [] OTHER -> NewError(st, "unknown operator: " \o typeDesc(left) \o " "
                                  \o operator \o " " \o typeDesc(right))

\* A plausible slip: the host's truthiness, in which the number 0 is falsy.
isTruthyZeroFalsy(condition) ==
    IF Same(condition, NULL) THEN FALSE
    ELSE IF Same(condition, TRUE_) THEN TRUE
    ELSE IF IsA(condition, "MInteger") /\ NumEqual(condition.value, Num(0)) THEN FALSE
    ELSE ~Same(condition, FALSE_)

isTruthy(condition) ==
    IF Same(condition, NULL) THEN FALSE
    ELSE IF Same(condition, TRUE_) THEN TRUE
    ELSE ~Same(condition, FALSE_)

(***************************************************************************)
(* objects.ts: the builtin functions, applied to the evaluated arguments   *)
(***************************************************************************)
wrongNumberOfArguments(st, length, expectedSize) ==
    NewError(st, "wrong number of arguments. got=" \o IntToString(length)
                    \o ", want=" \o IntToString(expectedSize))

mustBeArray(st, builtinName, first_) ==
    NewError(st, "argument to '" \o builtinName \o "' must be ARRAY, got "
                    \o typeDesc(first_))

lenBuiltin(st, args) ==
    IF Len(args) # 1 THEN wrongNumberOfArguments(st, Len(args), 1)
    ELSE LET arg == args[1]
         IN  CASE IsA(arg, "MString") -> NewInteger(st, Num(Len(arg.value)))
               [] IsA(arg, "MArray") ->
                     NewInteger(st, Num(Len(st.arrays[arg.elements])))
               [] OTHER -> NewError(st, "argument to 'len' not supported, got "
                                           \o typeDesc(arg))

\* A plausible slip: push tests its first argument before the number of
\* its arguments.
pushBuiltinArrayCheckFirst(st, args) ==
    IF Len(args) = 0 \/ ~IsA(args[1], "MArray")
    THEN mustBeArray(st, "push", IF Len(args) = 0 THEN Undefined ELSE args[1])
    ELSE IF Len(args) # 2 THEN wrongNumberOfArguments(st, Len(args), 2)
    ELSE LET elements == args[1].elements
             pushed == [st EXCEPT !.arrays[elements] = Append(@, args[2])]
         IN  V(MArray(elements, st.nextRef), Allocated(pushed))

pushBuiltin(st, args) ==
    IF Len(args) # 2 THEN wrongNumberOfArguments(st, Len(args), 2)
    ELSE IF ~IsA(args[1], "MArray") THEN mustBeArray(st, "push", args[1])
    ELSE LET elements == args[1].elements
             pushed == [st EXCEPT !.arrays[elements] = Append(@, args[2])]
         IN  V(MArray(elements, st.nextRef), Allocated(pushed))

firstBuiltin(st, args) ==
    IF Len(args) # 1 THEN wrongNumberOfArguments(st, Len(args), 1)
    ELSE IF ~IsA(args[1], "MArray") THEN mustBeArray(st, "first", args[1])
    ELSE LET elements == st.arrays[args[1].elements]
         IN  IF Len(elements) > 0 THEN V(elements[1], st) ELSE V(M_NULL, st)

lastBuiltin(st, args) ==
    IF Len(args) # 1 THEN wrongNumberOfArguments(st, Len(args), 1)
    ELSE IF ~IsA(args[1], "MArray") THEN mustBeArray(st, "last", args[1])
    ELSE LET elements == st.arrays[args[1].elements]
         IN  IF Len(elements) > 0 THEN V(elements[Len(elements)], st)
             ELSE V(M_NULL, st)

\* new MArray(elements) on a host array created for it
NewArray(st, elements) ==
    V(MArray(Len(st.arrays) + 1, st.nextRef),
      Allocated([st EXCEPT !.arrays = Append(@, elements)]))

restBuiltin(st, args) ==
    IF Len(args) # 1 THEN wrongNumberOfArguments(st, Len(args), 1)
    ELSE IF ~IsA(args[1], "MArray") THEN mustBeArray(st, "rest", args[1])
    ELSE LET elements == st.arrays[args[1].elements]
         IN  IF Len(elements) > 0 THEN NewArray(st, Tail(elements))
             ELSE V(M_NULL, st)

\* fun.fn(args)
callBuiltin(st, name, args) ==
    CASE name = "len" -> lenBuiltin(st, args)
      [] name = "push" -> pushBuiltin(st, args)
      [] name = "first" -> firstBuiltin(st, args)
      [] name = "last" -> lastBuiltin(st, args)
      [] name = "rest" -> restBuiltin(st, args)

evalArrayIndexExpression(st, array, index) ==
    LET elements == st.arrays[array.elements]
        i == index.value
        max == Num(Len(elements) - 1)
    IN  IF NumLess(i, Num(0)) \/ NumLess(max, i) THEN NULL
        ELSE IF IsInteger(i) THEN elements[i.num + 1]
        ELSE Undefined

\* Map.get on the entries of pairs
RECURSIVE PairsGet(_, _)
PairsGet(pairs, key) ==
    IF pairs = <<>> THEN Undefined
    ELSE IF Head(pairs).hashKey = key THEN Head(pairs).pair
    ELSE PairsGet(Tail(pairs), key)

\* A plausible slip: a key the Map holds keeps its pair.
PairsSetKeepFirst(pairs, key, pair) ==
    IF \E i \in 1..Len(pairs) : pairs[i].hashKey = key
    THEN pairs
    ELSE Append(pairs, [hashKey |-> key, pair |-> pair])

\* A plausible slip: the pairs kept in a list, each pair appended.
PairsSetAppend(pairs, key, pair) == Append(pairs, [hashKey |-> key, pair |-> pair])

\* Map.set: a key the Map holds keeps its place and gets the new pair
PairsSet(pairs, key, pair) ==
    IF \E i \in 1..Len(pairs) : pairs[i].hashKey = key
    THEN [i \in 1..Len(pairs) |->
             IF pairs[i].hashKey = key THEN [hashKey |-> key, pair |-> pair]
             ELSE pairs[i]]
    ELSE Append(pairs, [hashKey |-> key, pair |-> pair])

evalHashIndexExpression(st, hash, index) ==
    IF IsMValue(index)
    THEN LET pair == PairsGet(hash.pairs, hashKey(index))
         IN  IF pair # Undefined THEN V(pair.value, st) ELSE V(NULL, st)
    ELSE NewError(st, "unusable as a hash key: " \o typeDesc(index))

(***************************************************************************)
(* evaluator.ts: evaluateNode and the functions it calls and is called by  *)
(***************************************************************************)
RECURSIVE evaluateNode(_, _, _)
RECURSIVE evalBlockStatementLoop(_, _, _, _, _)
RECURSIVE evalExpressionsLoop(_, _, _, _, _)
RECURSIVE hashLiteralPairs(_, _, _, _, _)
RECURSIVE extendFunctionEnvLoop(_, _, _, _, _)

evalBlockStatementLoop(st, statements, i, env, result) ==
    LET After(r) ==
            IF Halted(r.st) THEN r
            ELSE IF r.v # Null /\ (IsA(r.v, "MReturnValue") \/ IsA(r.v, "MError"))
            THEN r
            ELSE evalBlockStatementLoop(r.st, statements, i + 1, env, r.v)
    IN  IF i > Len(statements) THEN V(result, st)
        ELSE After(evaluateNode(Log(st, [kind |-> "stmt", env |-> env, index |-> i]),
                                statements[i], env))

evalBlockStatement(st, node, env) ==
    IF ~node.statements.isNull
    THEN evalBlockStatementLoop(st, node.statements.items, 1, env, Null)
    ELSE V(Null, st)

\* A plausible slip: the loop of evalExpressions without its isError test.
evalExpressionsLoopNoStop(st, args, i, env, evalList) ==
    LET After(r) ==
            IF Halted(r.st) THEN r
            ELSE evalExpressionsLoop(r.st, args, i + 1, env, Append(evalList, r.v))
    IN  IF i > Len(args) THEN V(evalList, st)
        ELSE After(evaluateNode(st, args[i], env))

evalExpressionsLoop(st, args, i, env, evalList) ==
    LET After(r) ==
            IF Halted(r.st) THEN r
            ELSE IF isError(r.v) THEN V(<<r.v>>, r.st)
            ELSE evalExpressionsLoop(r.st, args, i + 1, env, Append(evalList, r.v))
    IN  IF i > Len(args) THEN V(evalList, st)
        ELSE After(evaluateNode(st, args[i], env))

\* iterating a null ExpressionList throws a TypeError
evalExpressions(st, args, env) ==
    IF args.isNull THEN V(<<>>, Thrown(st))
    ELSE evalExpressionsLoop(st, args.items, 1, env, <<>>)

\* A plausible slip: a parameter without an argument is bound to NULL.
extendFunctionEnvLoopNullDefault(st, parameters, i, args, env) ==
    IF i > Len(parameters) THEN st
    ELSE extendFunctionEnvLoop(
             set(st, env, parameters[i].value,
                 IF i <= Len(args) THEN args[i] ELSE NULL),
             parameters, i + 1, args, env)

extendFunctionEnvLoop(st, parameters, i, args, env) ==
    IF i > Len(parameters) THEN st
    ELSE extendFunctionEnvLoop(
             set(st, env, parameters[i].value,
                 IF i <= Len(args) THEN args[i] ELSE Undefined),
             parameters, i + 1, args, env)

\* A plausible slip: the new Environment encloses the global Environment
\* instead of the one the function captured.
extendFunctionEnvGlobalOuter(st, fun, args) ==
    LET Made(made, env) ==
            V(env, IF fun.parameters.isNull THEN made
                   ELSE extendFunctionEnvLoop(made, fun.parameters.items, 1, args, env))
    IN  Made(newEnclosedEnvironment(st, 1), Len(st.envs) + 1)

\* The new Environment (its index) and the heap that holds it.
extendFunctionEnv(st, fun, args) ==
    LET Made(made, env) ==
            V(env, IF fun.parameters.isNull THEN made
                   ELSE extendFunctionEnvLoop(made, fun.parameters.items, 1, args, env))
    IN  Made(newEnclosedEnvironment(st, fun.env), Len(st.envs) + 1)

applyFunction(st, fun, args) ==
    LET Result(evaluated, extendEnv, result) ==
            IF Halted(evaluated.st) THEN evaluated
            ELSE V(result,
                   Log([evaluated.st EXCEPT !.depth = @ - 1],
                       [kind |-> "callret", env |-> extendEnv, value |-> result,
                        envs |-> evaluated.st.envs]))
        Evaluated(evaluated, extendEnv) ==
            Result(evaluated, extendEnv,
                   IF IsA(evaluated.v, "MReturnValue")
                   THEN evaluated.v.value ELSE evaluated.v)
        Extended(extendEnv) ==
            Evaluated(evaluateNode(
                          Log([extendEnv.st EXCEPT !.depth = @ + 1],
                              [kind |-> "call", fun |-> fun.ref,
                               env |-> extendEnv.v, args |-> args,
                               parameters |-> fun.parameters,
                               envs |-> extendEnv.st.envs]),
                          fun.body, extendEnv.v),
                      extendEnv.v)
        Called(result, value) ==
            V(value, Log(result.st, [kind |-> "builtinres", fn |-> fun.fn,
                                     args |-> args, value |-> value,
                                     before |-> st.arrays,
                                     after |-> result.st.arrays]))
        Builtin(result) == Called(result, IF result.v = Null THEN NULL ELSE result.v)
    IN  CASE IsA(fun, "MFunction") ->
                IF st.depth >= MaxDepth THEN V(Null, [st EXCEPT !.abort = "overflow"])
                ELSE Extended(extendFunctionEnv(st, fun, args))
          [] IsA(fun, "MBuiltinFunction") ->
                Builtin(callBuiltin(Log(st, [kind |-> "builtin", fn |-> fun.fn,
                                             args |-> args]),
                                    fun.fn, args))
          [] OTHER -> NewError(st, "not a function: " \o typeDesc(fun))

hashLiteralPairs(st, nodePairs, i, env, pairs) ==
    LET Made(hash) ==
            V(hash, Log(Allocated(st), [kind |-> "hash", value |-> hash,
                                        size |-> Len(nodePairs)]))
        Stored(stored, after, key, value) ==
            hashLiteralPairs(Log(stored, [kind |-> "hashpair", index |-> i,
                                          key |-> key, value |-> value,
                                          before |-> pairs, after |-> after]),
                             nodePairs, i + 1, env, after)
        Value(value, key) ==
            IF Halted(value.st) \/ isError(value.v) THEN value
            ELSE Stored(value.st, PairsSet(pairs, hashKey(key), HashPair(key, value.v)),
                        key, value.v)
        Keyed(keyed, key) ==
            IF IsMValue(key)
            THEN Value(evaluateNode(Log(keyed, [kind |-> "hashvalue", index |-> i]),
                                    nodePairs[i][2], env),
                       key)
            ELSE NewError(keyed, "unusable as hash key: " \o typeDesc(key))
        Key(key) ==
            IF Halted(key.st) \/ isError(key.v) THEN key
            ELSE Keyed(Log(key.st, [kind |-> "hashkey", index |-> i, key |-> key.v]),
                       key.v)
    IN  IF i > Len(nodePairs) THEN Made(MHash(pairs, st.nextRef))
        ELSE Key(evaluateNode(st, nodePairs[i][1], env))

evalIdentifier(st, node, env) ==
    LET Found(found, looked) ==
            IF found.value = Null
            THEN IF node.value \in builtinNames THEN V(builtins(node.value), looked)
                 ELSE NewError(looked, "identifier not found: " \o node.value)
            ELSE V(found.value, looked)
        Got(found) ==
            Found(found,
                  Log(st, [kind |-> "get", env |-> env, name |-> node.value,
                           foundIn |-> found.foundIn, value |-> found.value,
                           envs |-> st.envs,
                           boundIn |-> {e \in 1..Len(st.envs) :
                               StoreGet(st.envs[e].store, node.value) # Undefined}]))
    IN  Got(get(st, env, node.value))

evalInfix(st, node, env) ==
    LET Result(result, left, right) ==
            V(result.v, Log(result.st, [kind |-> "opres", operator |-> node.operator,
                                        operands |-> <<left, right>>,
                                        value |-> result.v]))
        Right(right, left) ==
            IF Halted(right.st) \/ ~ifNotErrorRuns(right.v) THEN right
            ELSE Result(evalInfixExpression(
                            Log(right.st, [kind |-> "op", operator |-> node.operator,
                                           operands |-> <<left, right.v>>]),
                            node.operator, left, right.v),
                        left, right.v)
        Left(left) ==
            IF Halted(left.st) \/ ~ifNotErrorRuns(left.v) THEN left
            ELSE Right(evaluateNode(left.st, node.right, env), left.v)
    IN  Left(evaluateNode(st, node.left, env))

evalIf(st, node, env) ==
    LET Branch(result, condition, branch) ==
            IF Halted(result.st) THEN result
            ELSE V(result.v,
                   Log(result.st, [kind |-> "if", condition |-> condition,
                                   branch |-> branch, value |-> result.v,
                                   alternative |-> node.alternative # Null]))
        Condition(condition) ==
            IF Halted(condition.st) \/ ~ifNotErrorRuns(condition.v) THEN condition
            ELSE IF isTruthy(condition.v)
            THEN Branch(evaluateNode(condition.st, node.consequence, env),
                        condition.v, "consequence")
            ELSE IF node.alternative # Null
            THEN Branch(evalBlockStatement(condition.st, node.alternative, env),
                        condition.v, "alternative")
            ELSE Branch(V(NULL, condition.st), condition.v, "none")
    IN  Condition(evaluateNode(st, node.condition, env))

evalCall(st, node, env) ==
    LET Args(args, fun) ==
            IF Halted(args.st) THEN args
            ELSE IF Len(args.v) = 1 /\ isError(args.v[1]) THEN V(args.v[1], args.st)
            ELSE applyFunction(args.st, fun, args.v)
        Fun(fun) ==
            IF Halted(fun.st) \/ ~ifNotErrorRuns(fun.v) THEN fun
            ELSE Args(evalExpressions(fun.st, node.args, env), fun.v)
    IN  Fun(evaluateNode(st, node.fun, env))

evalReturn(st, node, env) ==
    LET Value(value) ==
            IF Halted(value.st) \/ ~ifNotErrorRuns(value.v) THEN value
            ELSE V(MReturnValue(value.v, value.st.nextRef),
                   Log(Allocated(value.st),
                       [kind |-> "return", env |-> env, value |-> value.v]))
    IN  Value(evaluateNode(st, node.returnValue, env))

evalPrefix(st, node, env) ==
    LET Result(result, right) ==
            V(result.v, Log(result.st, [kind |-> "opres", operator |-> node.operator,
                                        operands |-> <<right>>, value |-> result.v]))
        Applied(applied, right) ==
            Result(CASE node.operator = "!" ->
                            V(evalBangOperatorExpression(right), applied)
                     [] node.operator = "-" ->
                            evalMinusPrefixOperatorExpression(applied, right)
                     [] OTHER -> NewError(applied, "Unknown operator: " \o node.operator
                                                      \o typeDesc(right)),
                   right)
        Right(right) ==
            IF Halted(right.st) \/ ~ifNotErrorRuns(right.v) THEN right
            ELSE Applied(Log(right.st, [kind |-> "op", operator |-> node.operator,
                                        operands |-> <<right.v>>]),
                         right.v)
    IN  Right(evaluateNode(st, node.right, env))

evalLet(st, node, env) ==
    LET Valued(valued, value) ==
            IF ~ifNotErrorRuns(value) THEN V(value, valued)
            ELSE put(valued, env, node.name.value, value)
        Value(value) ==
            IF Halted(value.st) THEN value
            ELSE Valued(Log(value.st, [kind |-> "letval", env |-> env,
                                       name |-> node.name.value, value |-> value.v]),
                        value.v)
    IN  Value(evaluateNode(st, node.value, env))

\* A plausible slip: the function keeps a copy of the Environment as it is
\* when the literal is evaluated.
evalFunctionLiteralSnapshot(st, node, env) ==
    V(MFunction(node.parameters, node.body, Len(st.envs) + 1, st.nextRef),
      Log(Allocated([st EXCEPT !.envs = Append(@, st.envs[env])]),
          [kind |-> "fn", ref |-> st.nextRef, env |-> env]))

evalFunctionLiteral(st, node, env) ==
    V(MFunction(node.parameters, node.body, env, st.nextRef),
      Log(Allocated(st), [kind |-> "fn", ref |-> st.nextRef, env |-> env]))

evalIndex(st, node, env) ==
    LET Result(result, left, index) ==
            V(result.v,
              Log(result.st, [kind |-> "index", left |-> left, index |-> index,
                              elements |-> IF IsA(left, "MArray")
                                           THEN result.st.arrays[left.elements]
                                           ELSE <<>>,
                              value |-> result.v]))
        Index(index, left) ==
            IF Halted(index.st) \/ isError(index.v) THEN index
            ELSE Result(CASE IsA(left, "MArray") /\ IsA(index.v, "MInteger") ->
                               V(evalArrayIndexExpression(index.st, left, index.v),
                                 index.st)
                          [] IsA(left, "MHash") ->
                               evalHashIndexExpression(index.st, left, index.v)
                          [] OTHER -> NewError(index.st, "index operator not supported: "
                                                            \o typeDesc(left)),
                        left, index.v)
        Left(left) ==
            IF Halted(left.st) \/ isError(left.v) THEN left
            ELSE Index(evaluateNode(left.st, node.index, env), left.v)
    IN  Left(evaluateNode(st, node.left, env))

evalArrayLiteral(st, node, env) ==
    LET Made(array, elements) ==
            V(array.v, Log(array.st, [kind |-> "array", value |-> array.v,
                                      elements |-> elements]))
        Elements(elements) ==
            IF Halted(elements.st) THEN elements
            ELSE IF Len(elements.v) = 1 /\ isError(elements.v[1])
            THEN V(elements.v[1], elements.st)
            ELSE Made(NewArray(elements.st, elements.v), elements.v)
    IN  Elements(evalExpressions(st, node.elements, env))

\* A plausible slip: evaluateNode without the branch of one node class, which
\* then reaches the final throw.
evaluateNodeNoReturnStatement(st, node, env) ==
    CASE node.type = "Identifier" -> evalIdentifier(st, node, env)
      [] node.type = "IntegerLiteral" -> NewInteger(st, Num(node.value))
      [] node.type = "InfixExpression" -> evalInfix(st, node, env)
      [] node.type = "BlockStatement" -> evalBlockStatement(st, node, env)
      [] node.type = "ExpressionStatement" -> evaluateNode(st, node.expression, env)
      [] node.type = "IfExpression" -> evalIf(st, node, env)
      [] node.type = "CallExpression" -> evalCall(st, node, env)
      [] node.type = "PrefixExpression" -> evalPrefix(st, node, env)
      [] node.type = "BooleanLiteral" -> V(toMonkey(node.value), st)
      [] node.type = "LetStatement" -> evalLet(st, node, env)
      [] node.type = "FunctionLiteral" -> evalFunctionLiteral(st, node, env)
      [] node.type = "StringLiteral" ->
            V(MString(node.value, st.nextRef), Allocated(st))
      [] node.type = "IndexExpression" -> evalIndex(st, node, env)
      [] node.type = "HashLiteral" -> hashLiteralPairs(st, node.pairs, 1, env, <<>>)
      [] node.type = "ArrayLiteral" -> evalArrayLiteral(st, node, env)
      [] OTHER -> V(Null, Thrown(st))

evaluateNode(st, node, env) ==
    CASE node.type = "Identifier" -> evalIdentifier(st, node, env)
      [] node.type = "IntegerLiteral" -> NewInteger(st, Num(node.value))
      [] node.type = "InfixExpression" -> evalInfix(st, node, env)
      [] node.type = "BlockStatement" -> evalBlockStatement(st, node, env)
      [] node.type = "ExpressionStatement" -> evaluateNode(st, node.expression, env)
      [] node.type = "IfExpression" -> evalIf(st, node, env)
      [] node.type = "CallExpression" -> evalCall(st, node, env)
      [] node.type = "ReturnStatement" -> evalReturn(st, node, env)
      [] node.type = "PrefixExpression" -> evalPrefix(st, node, env)
      [] node.type = "BooleanLiteral" -> V(toMonkey(node.value), st)
      [] node.type = "LetStatement" -> evalLet(st, node, env)
      [] node.type = "FunctionLiteral" -> evalFunctionLiteral(st, node, env)
      [] node.type = "StringLiteral" ->
            V(MString(node.value, st.nextRef), Allocated(st))
      [] node.type = "IndexExpression" -> evalIndex(st, node, env)
      [] node.type = "HashLiteral" -> hashLiteralPairs(st, node.pairs, 1, env, <<>>)
      [] node.type = "ArrayLiteral" -> evalArrayLiteral(st, node, env)
      [] OTHER -> V(Null, Thrown(st))

\* A plausible slip: the loop of evaluate without its MError test.
RECURSIVE evaluateLoopNoErrorReturn(_, _, _, _, _)
evaluateLoopNoErrorReturn(st, statements, i, env, result) ==
    LET Done(done, r) ==
            IF IsA(r, "MReturnValue") THEN V(r.value, done)
            ELSE evaluateLoopNoErrorReturn(done, statements, i + 1, env, r)
        After(r) ==
            IF Halted(r.st) THEN r
            ELSE Done(Log(r.st, [kind |-> "topres", index |-> i, value |-> r.v]), r.v)
    IN  IF i > Len(statements) THEN V(result, st)
        ELSE After(evaluateNode(Log(st, [kind |-> "top", index |-> i]),
                                statements[i], env))

RECURSIVE evaluateLoop(_, _, _, _, _)
evaluateLoop(st, statements, i, env, result) ==
    LET Done(done, r) ==
            IF IsA(r, "MReturnValue") THEN V(r.value, done)
            ELSE IF IsA(r, "MError") THEN V(r, done)
            ELSE evaluateLoop(done, statements, i + 1, env, r)
        After(r) ==
            IF Halted(r.st) THEN r
            ELSE Done(Log(r.st, [kind |-> "topres", index |-> i, value |-> r.v]), r.v)
    IN  IF i > Len(statements) THEN V(result, st)
        ELSE After(evaluateNode(Log(st, [kind |-> "top", index |-> i]),
                                statements[i], env))

evaluate(st, program_, env) == evaluateLoop(st, program_.statements, 1, env, Null)

(***************************************************************************)
(* objects.ts: inspect().  The rendering is [text |-> the string], or      *)
(* [thrown |-> TRUE] when the host throws a TypeError on the way.          *)
(***************************************************************************)
Text(string) == [thrown |-> FALSE, text |-> string]

Throws == [thrown |-> TRUE, text |-> ""]

\* What Array.prototype.join renders of an element: nothing of null and
\* undefined, toString() of the others, which is Object.prototype.toString
\* for the classes that declare none.
ElementToString(obj) ==
    CASE IsNullish(obj) -> ""
      [] IsMValue(obj) -> MValueToString(obj)
      [] IsA(obj, "MError") -> "MError(message=" \o obj.message \o ")"
      [] OTHER -> "[object Object]"

RECURSIVE JoinElements(_)
JoinElements(elements) ==
    IF elements = <<>> THEN ""
    ELSE IF Len(elements) = 1 THEN ElementToString(elements[1])
    ELSE ElementToString(elements[1]) \o ", " \o JoinElements(Tail(elements))

\* `[${this.elements.join(', ')}]`
MArrayInspect(st, obj) == Text("[" \o JoinElements(st.arrays[obj.elements]) \o "]")

MFunctionInspect(obj) ==
    Text("fn(" \o OptionalJoin(obj.parameters, ", ") \o ") {\n\t"
             \o Template(obj.body) \o "\n}")

RECURSIVE inspect(_, _)
RECURSIVE MHashInspectLoop(_, _, _)
MHashInspectLoop(st, pairs, values) ==
    LET Valued(value, key) ==
            IF value.thrown THEN [thrown |-> TRUE, values |-> values]
            ELSE MHashInspectLoop(st, Tail(pairs),
                                  Append(values, key.text \o ": " \o value.text))
        Keyed(key) ==
            IF key.thrown THEN [thrown |-> TRUE, values |-> values]
            ELSE Valued(inspect(st, Head(pairs).pair.value), key)
    IN  IF pairs = <<>> THEN [thrown |-> FALSE, values |-> values]
        ELSE Keyed(inspect(st, Head(pairs).pair.key))

RECURSIVE JoinStrings(_)
JoinStrings(strings) ==
    IF strings = <<>> THEN ""
    ELSE IF Len(strings) = 1 THEN strings[1]
    ELSE strings[1] \o ", " \o JoinStrings(Tail(strings))

MHashInspect(st, obj) ==
    LET Values(r) ==
            IF r.thrown THEN Throws ELSE Text("{" \o JoinStrings(r.values) \o "}")
    IN  Values(MHashInspectLoop(st, obj.pairs, <<>>))

inspect(st, obj) ==
    CASE IsNullish(obj) -> Throws
      [] IsMValue(obj) -> Text(MValueInspect(obj))
      [] IsA(obj, "MReturnValue") -> inspect(st, obj.value)
      [] IsA(obj, "MError") -> Text("ERROR: " \o obj.message)
      [] IsA(obj, "MNull") -> Text("null")
      [] IsA(obj, "MFunction") -> MFunctionInspect(obj)
      [] IsA(obj, "MArray") -> MArrayInspect(st, obj)
      [] IsA(obj, "MHash") -> MHashInspect(st, obj)
      [] IsA(obj, "MBuiltinFunction") -> Text("builtin function")

\* The heap before evaluate is called: no Environment, no host array, and
\* the objects the modules create when they are loaded.
EmptyHeap ==
    [envs |-> <<>>, arrays |-> <<>>, nextRef |-> FirstFreeRef, depth |-> 0,
     abort |-> "none", log |-> <<>>]

(***************************************************************************)
(* The lexer driven alone: a caller that keeps calling nextToken.          *)
(***************************************************************************)
LexAlphabet == {"=", "!", "(", "f", "n", "1", " ", "\"", "@", "_"}

RECURSIVE StringsUpTo(_, _)
StringsUpTo(alphabet, n) ==
    IF n = 0 THEN {""}
    ELSE LET shorter == StringsUpTo(alphabet, n - 1)
         IN  shorter \cup {s \o c : s \in shorter, c \in alphabet}

LexInputs == StringsUpTo(LexAlphabet, MaxLexLen)

\* Parser's initial curToken/peekToken value, used here for "no token yet".
NoToken == Token("ILLEGAL", "")

LexIdle ==
    /\ lexer = NewLexer("")
    /\ token = NoToken
    /\ calls = 0

ParseIdle ==
    /\ source = [text |-> "", shape |-> Null]
    /\ parser = NewParser(NewLexer(""))
    /\ program = Null
    /\ outcome = "idle"
    /\ round = 0
    /\ first = Null

EvalIdle ==
    /\ heap = EmptyHeap
    /\ returned = Null
    /\ status = "idle"
    /\ output = Null

LexInit ==
    /\ lexer \in {NewLexer(s) : s \in LexInputs}
    /\ token = NoToken
    /\ calls = 0
    /\ ParseIdle
    /\ EvalIdle

LexNextToken ==
    /\ lexer.readPosition <= Len(lexer.input) + MaxEofCalls
    /\ LET Returned(r) == lexer' = r.l /\ token' = r.token
       IN  Returned(nextToken(lexer))
    /\ calls' = IF calls < MaxLexLen + MaxEofCalls THEN calls + 1 ELSE calls
    /\ UNCHANGED parseVars
    /\ UNCHANGED evalVars

LexNext == LexNextToken

SpecLexer == LexInit /\ [][LexNext]_vars

(***************************************************************************)
(* Sources for the parser.  A shape is the surface syntax of an operator   *)
(* expression: SrcOf writes it as a user would, without redundant          *)
(* parentheses.                                                            *)
(***************************************************************************)
Atom(s) == [k |-> "atom", s |-> s]

Pre(op, x) == [k |-> "pre", op |-> op, x |-> x]

Call(f, args) == [k |-> "call", f |-> f, args |-> args]

Idx(l, i) == [k |-> "idx", l |-> l, i |-> i]

Grp(c) == [k |-> "grp", c |-> c]

Chain(xs, ops) == [k |-> "chain", xs |-> xs, ops |-> ops]

One(x) == Chain(<<x>>, <<>>)

RECURSIVE SrcOf(_)
RECURSIVE SrcList(_)
SrcList(cs) ==
    IF cs = <<>> THEN ""
    ELSE IF Len(cs) = 1 THEN SrcOf(cs[1])
    ELSE SrcOf(cs[1]) \o ", " \o SrcList(Tail(cs))

RECURSIVE SrcChain(_, _)
SrcChain(xs, ops) ==
    IF Len(xs) = 1 THEN SrcOf(xs[1])
    ELSE SrcOf(xs[1]) \o " " \o ops[1] \o " " \o SrcChain(Tail(xs), Tail(ops))

SrcOf(sh) ==
    CASE sh.k = "atom" -> sh.s
      [] sh.k = "pre" -> sh.op \o SrcOf(sh.x)
      [] sh.k = "call" -> SrcOf(sh.f) \o "(" \o SrcList(sh.args) \o ")"
      [] sh.k = "idx" -> SrcOf(sh.l) \o "[" \o SrcOf(sh.i) \o "]"
      [] sh.k = "grp" -> "(" \o SrcOf(sh.c) \o ")"
      [] sh.k = "chain" -> SrcChain(sh.xs, sh.ops)

InfixOps == {"==", "!=", "<", ">", "+", "-", "*", "/"}

RECURSIVE OpSeqs(_, _)
OpSeqs(ops, n) ==
    IF n = 0 THEN {<<>>}
    ELSE {Append(s, o) : s \in OpSeqs(ops, n - 1), o \in ops}

ChainAtoms == <<"a", "b", "c", "d", "e", "f", "g", "h">>

\* a op b op c ...: every sequence of up to MaxChainOps infix operators.
PureChains ==
    {Chain([i \in 1..(Len(ops) + 1) |-> Atom(ChainAtoms[i])], ops) :
        ops \in UNION {OpSeqs(InfixOps, n) : n \in 0..MaxChainOps}}

OperandPool ==
    { Atom("1"),
      Pre("-", Atom("a")),
      Pre("!", Pre("-", Atom("a"))),
      Call(Atom("f"), <<Chain(<<Atom("x"), Atom("y"), Atom("z")>>, <<"+", "*">>)>>),
      Idx(Atom("v"), Chain(<<Atom("i"), Atom("j")>>, <<"*">>)),
      Pre("-", Call(Atom("f"), <<One(Atom("x")), One(Pre("!", Atom("y")))>>)),
      Pre("!", Idx(Atom("v"), One(Atom("0")))),
      Grp(Chain(<<Atom("x"), Atom("y")>>, <<"+">>)),
      Call(Idx(Call(Atom("f"), <<>>), One(Atom("i"))), <<One(Atom("x"))>>) }

MixedOps == {"==", "<", "-", "*"}

\* x op y op z with the operands drawn from OperandPool.
MixedChains ==
    {Chain(<<x, y, z>>, ops) :
        x \in OperandPool, y \in OperandPool, z \in {Atom("c"), Pre("-", Atom("c"))},
        ops \in OpSeqs(MixedOps, 2)}

\* The parser test's own example, a + b * c + d / e - f.
TestChain ==
    Chain(<<Atom("a"), Atom("b"), Atom("c"), Atom("d"), Atom("e"), Atom("f")>>,
          <<"+", "*", "+", "/", "-">>)

ChainShapes == PureChains \cup MixedChains \cup {TestChain}

ChainSources == {[text |-> SrcOf(sh), shape |-> sh] : sh \in ChainShapes}

Lexemes == {"a", "1", "-", "(", ")", "{", "}", ":", ",", "[", "]", ";", "@"}

RECURSIVE LexemeTexts(_)
LexemeTexts(n) ==
    IF n = 0 THEN {""}
    ELSE LET shorter == LexemeTexts(n - 1)
         IN  shorter \cup {s \o x \o " " : s \in shorter, x \in Lexemes}

StatementTexts ==
    { "let x = 5; let y = x; y;",
      "let x = 1 let y = 2",
      "return 1; 2",
      "1; 2",
      "a; (b)",
      "a; -b",
      "a; [b]",
      "\"hello world\"",
      "\"a\" + \"b\"",
      "if (x < y) { x }",
      "if (x < y) { x } else { y }",
      "if (x) { return 1; } 2",
      "fn(x, y) { x + y; }",
      "fn() { 1 }",
      "fn(x) { x }(1)",
      "let f = fn(x) { return x; };",
      "[1, 2 * 3, a]",
      "[]",
      "[1, 2][0]",
      "{}",
      "{1: 2}",
      "{\"a\": 1, b: 2 + 3}",
      "{1: 2}[1]",
      "{1: }",
      "{: 1}",
      "{1: 2, }",
      "{1 2}",
      "let = 5;",
      "let x 5;",
      "let x = ;",
      "(1 + 2",
      "f(1, 2",
      "f(1,, 2)",
      "[1, 2",
      "a[1",
      "if x { 1 }",
      "if (x { 1 }",
      "if (x) 1",
      "if (x) { 1 } else 2",
      "if (x) { 1",
      "fn x { 1 }",
      "fn(x { 1 }",
      "fn(x, ) { 1 }",
      "fn(x) 1",
      "fn(x) { @ }",
      "if (x) { 1 } else { @ }",
      "@",
      "1 @ 2",
      "return;",
      "!;",
      "1 +;" }

TextSources ==
    {[text |-> t, shape |-> Null] : t \in LexemeTexts(MaxLexemes) \cup StatementTexts}

ParseSources == ChainSources \cup TextSources

(***************************************************************************)
(* The parser's caller: construct a Parser on a source, call parseProgram, *)
(* and hand the rendering of the Program it returned to a second Parser.   *)
(***************************************************************************)
ParseInit ==
    /\ source \in ParseSources
    /\ parser = NewParser(NewLexer(source.text))
    /\ program = Null
    /\ outcome = "constructed"
    /\ round = 1
    /\ first = Null
    /\ LexIdle
    /\ EvalIdle

ParseProgramCall ==
    /\ outcome = "constructed"
    /\ LET Returned(r) ==
               /\ parser' = r.p
               /\ program' = r.e
               /\ outcome' = IF Aborted(r.p) THEN r.p.abort ELSE "returned"
       IN  Returned(parseProgram(parser))
    /\ UNCHANGED <<source, round, first>>
    /\ UNCHANGED lexVars
    /\ UNCHANGED evalVars

ParseRendering ==
    /\ outcome = "returned"
    /\ round = 1
    /\ LET Rendered(rendering) ==
               /\ first' = [errors |-> parser.errors, rendering |-> rendering,
                            program |-> program]
               /\ source' = [text |-> rendering, shape |-> Null]
               /\ parser' = NewParser(NewLexer(rendering))
       IN  Rendered(toString(program))
    /\ program' = Null
    /\ outcome' = "constructed"
    /\ round' = 2
    /\ UNCHANGED lexVars
    /\ UNCHANGED evalVars

ParseNext == ParseProgramCall \/ ParseRendering

SpecParser == ParseInit /\ [][ParseNext]_vars

(***************************************************************************)
(* The evaluator driven as the tests drive it: a source is parsed, and the *)
(* Program parseProgram returned is evaluated in a new Environment.        *)
(***************************************************************************)
MaxStatements == 2      \* most statements in an enumerated program

EvalStatements ==
    { "let a = 1; ",
      "let b = a + 1; ",
      "let a = 1 + true; ",
      "a; ",
      "return a; ",
      "-true; ",
      "let f = fn(x) { if (x) { return 1 }; 2 }; ",
      "f(true) + f(false); ",
      "let g = fn() { a }; ",
      "let a = g(); ",
      "let a = if (true) { return 3 }; ",
      "[a, 1 + if (true) { return 4 }]; " }

RECURSIVE StatementSeqs(_)
StatementSeqs(n) ==
    IF n = 0 THEN {""}
    ELSE LET shorter == StatementSeqs(n - 1)
         IN  shorter \cup {t \o s : t \in shorter, s \in EvalStatements}

EvalPrograms ==
    { "5 + 5 + 5 + 5 - 10",
      "7 / 2",
      "if (1 > 2) { 10 }",
      "if (10 > 1) { if (10 > 1) { return 10; } return 1; }",
      "return 2 * 5; 9;",
      "5 + true; 5;",
      "if (10 > 1) { true + false; }",
      "foobar",
      "let a = 5; let b = a; let c = a + b + 5; c;",
      "let identity = fn(x) { x; }; identity(5);",
      "let add = fn(x, y) { x + y; }; add(5 + 5, add(5, 5));",
      "let newAdder = fn(x) { fn(y) { x + y } }; let addTwo = newAdder(2); addTwo(3);",
      "let x = 1; let f = fn() { x }; let g = fn(x) { f() }; g(2)",
      "let x = 1; let newAdder = fn(x) { fn(y) { x + y } }; let addTwo = newAdder(2); let g = fn(x) { addTwo(3) }; g(10)",
      "let x = 1; let f = fn() { x }; let g = fn() { let x = 2; f() }; g()",
      "let f = fn(n) { if (n < 1) { return 0 }; let m = f(n - 1); m + 1 }; f(2)",
      "let f = fn(x) { if (x) { if (x) { return 1 }; 2 }; 3 }; let g = fn() { let r = f(true); r + 10 }; g()",
      "let f = fn(x) { f(x) }; f(1)",
      "return if (true) { return 1 };",
      "let x = if (true) { return 1 }; x",
      "1 + if (true) { return 2 }",
      "!if (true) { return 2 }",
      "let f = fn() { 1 + if (true) { return 5 }; 2 }; f()",
      "let f = fn() { return if (true) { return 1 } }; let g = fn() { f(); 3 }; g()",
      "let f = fn(x) { x }; f(if (true) { return 1 })",
      "{1: if (true) { return 1 }}",
      "let f = fn(x) { let y = 1 + true; let z = 2; z }; let w = f(1); 3",
      "len([1, 2, 3])",
      "let a = [1]; let b = push(a, 2); len(a)",
      "{\"one\": 10 - 9, 4: 4, true: 5}[4]",
      "[1, 2, 3][1 + 1]",
      "let x = ;",
      "if (true) {}",
      "let f = fn() { y }; let y = 3; f()",
      "let f = fn(n) { if (n < 1) { return 0 }; let m = f(n - 1); m + n }; f(2)",
      "let c = fn() { let k = 1; let g = fn() { k }; let k = 2; g() }; c()",
      "let f = fn() {}; f()",
      "let f = fn() {}; 1 + f()",
      "let x = 1; let f = fn(x) { let x = x + 1; x }; let y = f(5); x + y",
      "let x = 5; let f = fn(x) { x }; f()",
      "let t = 1 < 2; let a = [t, !t, 1 == 2]; {t: first(a), false: last(a)}",
      "let a = push([true], \"a\" == \"a\"); [first(a), last(a), rest(a), !first(a)]",
      "let n = if (false) { 1 }; [n, first([]), [1][5], {}[1], !n, n == n]",
      "let f = fn(x) { !x }; {f(1): f(f(1)), 1: f(rest([]))}" }

EvalSources ==
    {[text |-> t, shape |-> Null] : t \in EvalPrograms \cup StatementSeqs(MaxStatements)}

EvalInit ==
    /\ source \in EvalSources
    /\ parser = NewParser(NewLexer(source.text))
    /\ program = Null
    /\ outcome = "constructed"
    /\ round = 1
    /\ first = Null
    /\ LexIdle
    /\ EvalIdle

Evaluate ==
    /\ outcome = "returned"
    /\ status = "idle"
    /\ LET Returned(r) ==
               /\ heap' = r.st
               /\ returned' = r.v
               /\ status' = IF Halted(r.st) THEN r.st.abort ELSE "returned"
       IN  Returned(evaluate(newEnvironment(EmptyHeap), program, 1))
    /\ UNCHANGED output
    /\ UNCHANGED parseVars
    /\ UNCHANGED lexVars

EvalNext == ParseProgramCall \/ Evaluate

SpecEval == EvalInit /\ [][EvalNext]_vars

(***************************************************************************)
(* The evaluator driven on one operator at a time: every infix operator on *)
(* every pair of operands, the prefix operators and if on every operand,   *)
(* and == and != on an operand bound to a name.                            *)
(***************************************************************************)
IntegerOperands == {"0", "1", "2", "7", "-7"}

BooleanOperands == {"true", "false"}

StringOperands == {"\"a\"", "\"\"", "\"b\""}

\* an Array, a Hash, a Function, a Builtin, NULL and a ReturnValue
OtherOperands ==
    {"[1]", "{}", "fn(x) { x }", "len", "(if (false) { 1 })", "(if (true) { return 1 })"}

OperandTexts == IntegerOperands \cup BooleanOperands \cup StringOperands \cup OtherOperands

InfixPrograms == {a \o " " \o op \o " " \o b : a, b \in OperandTexts, op \in InfixOps}

NamedPrograms ==
    {"let v = " \o a \o "; let w = v; v " \o op \o " w" :
        a \in OperandTexts \ {"(if (true) { return 1 })"}, op \in {"==", "!="}}

PrefixPrograms == {op \o a : a \in OperandTexts, op \in {"!", "-", "!!"}}

IfPrograms ==
    {"if (" \o a \o ") { 10 }" \o e : a \in OperandTexts, e \in {"", " else { 20 }"}}

OperatorSources ==
    {[text |-> t, shape |-> Null] :
        t \in InfixPrograms \cup NamedPrograms \cup PrefixPrograms \cup IfPrograms}

OperatorInit ==
    /\ source \in OperatorSources
    /\ parser = NewParser(NewLexer(source.text))
    /\ program = Null
    /\ outcome = "constructed"
    /\ round = 1
    /\ first = Null
    /\ LexIdle
    /\ EvalIdle

SpecOperators == OperatorInit /\ [][EvalNext]_vars

(***************************************************************************)
(* The evaluator driven on index expressions and hash literals: every      *)
(* array under every index, every key in a hash literal of one and of two  *)
(* pairs, alone and under every index.                                     *)
(***************************************************************************)
ArrayTexts == {"[]", "[7]", "[7, true, \"a\"]"}

\* Integers in and out of the arrays' ranges, the number 1/2, and objects
\* that are not Integers
IndexTexts == {"0", "1", "2", "3", "-1", "1 / 2", "true", "\"a\"", "[0]", "len"}

\* objects that are neither Array nor Hash
UnindexedTexts == {"1", "true", "\"a\"", "fn(x) { x }", "len", "(if (false) { 1 })"}

HashableKeys == {"1", "2", "1 + 1", "true", "false", "\"1\"", "\"true\"", "\"a\""}

UnhashableKeys == {"[1]", "fn(x) { x }", "{}", "len", "(if (false) { 1 })"}

KeyTexts == HashableKeys \cup UnhashableKeys

ArrayIndexPrograms ==
    {a \o "[" \o i \o "]" : a \in ArrayTexts \cup UnindexedTexts, i \in IndexTexts}

HashLiteralTexts ==
    {"{}"} \cup {"{" \o k \o ": 10}" : k \in KeyTexts}
        \cup {"{" \o k1 \o ": 10, " \o k2 \o ": first([20])}" : k1, k2 \in KeyTexts}

HashIndexPrograms == {h \o "[" \o k \o "]" : h \in HashLiteralTexts, k \in KeyTexts}

RepeatedKeys == {"1", "2", "2 - 1", "\"1\""}

RepeatedKeyPrograms ==
    {"{" \o k1 \o ": 10, " \o k2 \o ": 20, " \o k3 \o ": 30}" :
        k1, k2, k3 \in RepeatedKeys}

IndexSources ==
    {[text |-> t, shape |-> Null] :
        t \in ArrayIndexPrograms \cup HashLiteralTexts \cup HashIndexPrograms
                \cup RepeatedKeyPrograms}

IndexInit ==
    /\ source \in IndexSources
    /\ parser = NewParser(NewLexer(source.text))
    /\ program = Null
    /\ outcome = "constructed"
    /\ round = 1
    /\ first = Null
    /\ LexIdle
    /\ EvalIdle

SpecIndex == IndexInit /\ [][EvalNext]_vars

(***************************************************************************)
(* The evaluator driven on the builtin functions: every builtin on every   *)
(* list of up to MaxArguments arguments, and push and rest on an array     *)
(* that is bound to a name.                                                *)
(***************************************************************************)
MaxArguments == 2

ArgumentTexts == {"[]", "[1, 2]", "\"ab\"", "1", "true", "len"}

RECURSIVE ArgumentLists(_)
ArgumentLists(n) ==
    IF n = 0 THEN {""}
    ELSE ArgumentTexts
            \cup {l \o ", " \o a : l \in ArgumentLists(n - 1) \ {""}, a \in ArgumentTexts}
            \cup {""}

BuiltinCallPrograms ==
    {name \o "(" \o l \o ")" : name \in builtinNames, l \in ArgumentLists(MaxArguments)}

NamedArrayPrograms ==
    { "let a = [1]; let b = push(a, 2); len(a)",
      "let a = [1, 2]; let b = push(a, 3); let c = push(a, 4); [len(a), len(b), len(c)]",
      "let a = [1, 2]; let r = rest(a); [len(a), len(r), first(a), first(r)]",
      "let a = []; let b = push(a, a); [rest(a), len(b)]" }

BuiltinSources ==
    {[text |-> t, shape |-> Null] : t \in BuiltinCallPrograms \cup NamedArrayPrograms}

BuiltinInit ==
    /\ source \in BuiltinSources
    /\ parser = NewParser(NewLexer(source.text))
    /\ program = Null
    /\ outcome = "constructed"
    /\ round = 1
    /\ first = Null
    /\ LexIdle
    /\ EvalIdle

SpecBuiltins == BuiltinInit /\ [][EvalNext]_vars

(***************************************************************************)
(* The evaluator driven as the read-eval-print loop and the benchmark      *)
(* drive it, which print inspect() of the result: on arrays of up to       *)
(* MaxElements elements, hashes and the other objects.                     *)
(***************************************************************************)
MaxElements == 2

ElementTexts == {"1", "-7", "true", "\"a\"", "\"\""}

RECURSIVE ElementLists(_)
ElementLists(n) ==
    IF n = 0 THEN {""}
    ELSE ElementTexts
            \cup {l \o ", " \o e : l \in ElementLists(n - 1) \ {""}, e \in ElementTexts}
            \cup {""}

ArrayPrograms == {"[" \o l \o "]" : l \in ElementLists(MaxElements)}

HashPrograms ==
    {"{" \o k \o ": " \o v \o "}" : k, v \in ElementTexts}
        \cup {"{" \o k \o ": [" \o v \o "]}" : k, v \in ElementTexts}

OtherPrograms ==
    { "1", "true", "\"a\"", "7 / 2", "1 + true", "if (false) { 1 }", "len", "{}",
      "fn(x, y) { x + y; }", "return if (true) { return 1 };",
      "[[1], {1: 2}, len, fn(x) { x }, if (false) { 1 }, if (true) {}]",
      "{1: if (true) {}}", "[1, 2, 3][1 / 2]", "" }

InspectSources ==
    {[text |-> t, shape |-> Null] : t \in ArrayPrograms \cup HashPrograms \cup OtherPrograms}

InspectInit ==
    /\ source \in InspectSources
    /\ parser = NewParser(NewLexer(source.text))
    /\ program = Null
    /\ outcome = "constructed"
    /\ round = 1
    /\ first = Null
    /\ LexIdle
    /\ EvalIdle

\* if (output !== null) console.log(output.inspect())
Inspect ==
    /\ status = "returned"
    /\ output = Null
    /\ returned # Null
    /\ LET Printed(rendering) == output' = rendering
       IN  Printed(inspect(heap, returned))
    /\ UNCHANGED <<heap, returned, status>>
    /\ UNCHANGED parseVars
    /\ UNCHANGED lexVars

InspectNext == ParseProgramCall \/ Evaluate \/ Inspect

SpecInspect == InspectInit /\ [][InspectNext]_vars

(***************************************************************************)
(* The evaluator driven on expressions whose operands are names, each      *)
(* bound by the statements before it or the unbound zz.  The shape of a    *)
(* source is the order in which its text names the operands, with a mark   *)
(* after the operands of each call, operator, index, pair and literal.     *)
(***************************************************************************)
OrderPrelude ==
    "let a = 1; let b = 2; let c = 3; let d = 4; let l = [5, 6, 7]; let f = fn(x, y) { x }; "

Unbound == "zz"

Operand(name) == {name, Unbound}

Ordered(text, shape) == [text |-> OrderPrelude \o text, shape |-> shape]

CallOrders ==
    {Ordered(callee \o "(" \o x \o ", " \o y \o ")", <<callee, x, y, "()">>) :
        callee \in {"f", "push", Unbound}, x \in Operand("a"), y \in Operand("b")}
    \cup {Ordered("f(" \o x \o ", f(" \o y \o ", " \o z \o "))",
                  <<"f", x, "f", y, z, "()", "()">>) :
            x \in Operand("a"), y \in Operand("b"), z \in Operand("c")}
    \cup {Ordered("f(f(" \o x \o ", " \o y \o "), " \o z \o ")",
                  <<"f", "f", x, y, "()", z, "()">>) :
            x \in Operand("a"), y \in Operand("b"), z \in Operand("c")}

ArrayOrders ==
    {Ordered("[" \o x \o ", " \o y \o ", " \o z \o "]", <<x, y, z, "[]">>) :
        x \in Operand("a"), y \in Operand("b"), z \in Operand("c")}

HashOrders ==
    {Ordered("{" \o x \o ": " \o y \o ", " \o z \o ": " \o w \o "}",
             <<x, y, ":", z, w, ":", "{}">>) :
        x \in Operand("a"), y \in Operand("b"), z \in Operand("c"), w \in Operand("d")}

IndexOrders ==
    {Ordered(left \o "[" \o x \o "]", <<left, x, "@">>) :
        left \in Operand("l"), x \in Operand("a")}
    \cup {Ordered("[" \o x \o ", " \o y \o "][" \o z \o "]", <<x, y, "[]", z, "@">>) :
            x \in Operand("a"), y \in Operand("b"), z \in Operand("c")}

InfixOrders ==
    {Ordered(x \o " " \o op \o " " \o y, <<x, y, op>>) :
        x \in Operand("a"), y \in Operand("b"), op \in {"+", "<", "=="}}
    \cup {Ordered(x \o " + " \o y \o " * " \o z, <<x, y, z, "*", "+">>) :
            x \in Operand("a"), y \in Operand("b"), z \in Operand("c")}
    \cup {Ordered("(" \o x \o " + " \o y \o ") * " \o z, <<x, y, "+", z, "*">>) :
            x \in Operand("a"), y \in Operand("b"), z \in Operand("c")}
    \cup {Ordered(x \o " + f(" \o y \o ", " \o z \o ")", <<x, "f", y, z, "()", "+">>) :
            x \in Operand("a"), y \in Operand("b"), z \in Operand("c")}

OrderSources == CallOrders \cup ArrayOrders \cup HashOrders \cup IndexOrders \cup InfixOrders

OrderInit ==
    /\ source \in OrderSources
    /\ parser = NewParser(NewLexer(source.text))
    /\ program = Null
    /\ outcome = "constructed"
    /\ round = 1
    /\ first = Null
    /\ LexIdle
    /\ EvalIdle

SpecOrder == OrderInit /\ [][EvalNext]_vars

(***************************************************************************)
(* The evaluator driven on one call of a function of up to two parameters  *)
(* with up to three arguments, the body naming a parameter, a name that is *)
(* none, or neither, with and without a global binding of x.  The shape of *)
(* a source holds these choices.                                           *)
(***************************************************************************)
ParameterLists == {<<>>, <<"x">>, <<"x", "y">>}

ArityBodies == {"7", "x", "y"}

ArityArguments == 0..3

Literals(n) == [i \in 1..n |-> ToString(i)]

ArityText(outer, parameters, body, arguments) ==
    (IF outer THEN "let x = 5; " ELSE "")
        \o "let f = fn(" \o JoinStrings(parameters) \o ") { " \o body \o " }; "
        \o "f(" \o JoinStrings(Literals(arguments)) \o ")"

AritySources ==
    {[text |-> ArityText(outer, parameters, body, arguments),
      shape |-> [outer |-> outer, parameters |-> parameters, body |-> body,
                 arguments |-> arguments]] :
        outer \in BOOLEAN, parameters \in ParameterLists, body \in ArityBodies,
        arguments \in ArityArguments}

ArityInit ==
    /\ source \in AritySources
    /\ parser = NewParser(NewLexer(source.text))
    /\ program = Null
    /\ outcome = "constructed"
    /\ round = 1
    /\ first = Null
    /\ LexIdle
    /\ EvalIdle

SpecArity == ArityInit /\ [][EvalNext]_vars

(***************************************************************************)
(* Lexer claims                                                            *)
(***************************************************************************)
TokenTypes ==
    {"ILLEGAL", "EOF", "=", "==", "!=", "IDENT", "INT", "+", ",", ";", ":", "-",
     "!", "/", "*", "<", ">", "(", ")", "{", "}", "[", "]", "FUNCTION", "LET",
     "TRUE", "FALSE", "IF", "ELSE", "RETURN", "STRING"}

\* Every character of the input has been read.
Exhausted(l) == l.position >= Len(l.input)

\* C8: every nextToken call returns a token of one of the token types, and a
\* call made once the input is exhausted returns (EOF, "") and leaves the
\* input exhausted, so every later call does the same.
C8_TotalAndEofForever ==
    [][/\ token'.tokenType \in TokenTypes
       /\ Exhausted(lexer) => (token' = Token("EOF", "") /\ Exhausted(lexer'))]_vars

\* Two calls or more have returned EOF after the end of a non-empty input.
C8_Witness ==
    /\ Len(lexer.input) > 0
    /\ lexer.position >= Len(lexer.input) + 2
    /\ token = Token("EOF", "")

\* A character that starts no token.
IllegalChar(c) ==
    /\ c \notin WHITE_SPACES
    /\ c \notin ({"=", "!", "\"", ZERO} \cup SingleCharTokens)
    /\ ~isIdentifier(c)
    /\ ~isDigit(c)

\* C9: on such a character nextToken returns ILLEGAL with that character
\* as literal and moves on to the next character.
C9_IllegalAdvances ==
    [][IllegalChar(lexer.ch) =>
          /\ token' = Token("ILLEGAL", lexer.ch)
          /\ lexer'.position = lexer.position + 1]_vars

(***************************************************************************)
(* Parser claims                                                           *)
(***************************************************************************)
\* The precedence levels as the claim orders them.
RefPrecedence(op) ==
    CASE op \in {"==", "!="} -> 1
      [] op \in {"<", ">"} -> 2
      [] op \in {"+", "-"} -> 3
      [] op \in {"*", "/"} -> 4

\* The operator at the root of a chain: of the operators of the lowest
\* precedence the last one (equal precedence associates to the left).
RootIndex(ops) ==
    CHOOSE i \in 1..Len(ops) :
        /\ \A j \in 1..Len(ops) : RefPrecedence(ops[i]) <= RefPrecedence(ops[j])
        /\ \A j \in (i + 1)..Len(ops) : RefPrecedence(ops[i]) < RefPrecedence(ops[j])

\* The fully parenthesized rendering of a shape.
RECURSIVE RefOf(_)
RECURSIVE RefList(_)
RefList(cs) ==
    IF cs = <<>> THEN ""
    ELSE IF Len(cs) = 1 THEN RefOf(cs[1])
    ELSE RefOf(cs[1]) \o ", " \o RefList(Tail(cs))

RefOf(sh) ==
    CASE sh.k = "atom" -> sh.s
      [] sh.k = "pre" -> "(" \o sh.op \o RefOf(sh.x) \o ")"
      [] sh.k = "call" -> RefOf(sh.f) \o "(" \o RefList(sh.args) \o ")"
      [] sh.k = "idx" -> "(" \o RefOf(sh.l) \o "[" \o RefOf(sh.i) \o "])"
      [] sh.k = "grp" -> RefOf(sh.c)
      [] sh.k = "chain" ->
            IF Len(sh.xs) = 1 THEN RefOf(sh.xs[1])
            ELSE LET i == RootIndex(sh.ops)
                     n == Len(sh.xs)
                 IN  "(" \o RefOf(Chain(SubSeq(sh.xs, 1, i), SubSeq(sh.ops, 1, i - 1)))
                         \o " " \o sh.ops[i] \o " "
                         \o RefOf(Chain(SubSeq(sh.xs, i + 1, n), SubSeq(sh.ops, i + 1, n - 1)))
                         \o ")"

\* C6: an operator expression parses without errors into one expression
\* statement whose toString is the fully parenthesized rendering in which
\* higher precedence binds tighter and equal precedence associates left.
C6_PrecedenceRendering ==
    (round = 1 /\ outcome # "constructed" /\ source.shape # Null) =>
        /\ outcome = "returned"
        /\ parser.errors = <<>>
        /\ Len(program.statements) = 1
        /\ program.statements[1].type = "ExpressionStatement"
        /\ toString(program) = RefOf(source.shape)

C6_Witness ==
    /\ round = 1
    /\ outcome = "returned"
    /\ source.text = "a + b * c + d / e - f"
    /\ toString(program) = "(((a + (b * c)) + (d / e)) - f)"

\* The second parse agrees with the first: no errors, the same rendering.
RoundTrips ==
    /\ outcome = "returned"
    /\ parser.errors = <<>>
    /\ toString(program) = first.rendering

\* C7 as stated: every source that parses without errors round-trips.
C7_RoundTripEverySource ==
    (round = 2 /\ outcome # "constructed" /\ first.errors = <<>>) => RoundTrips

\* Expressions built from identifiers, integer and boolean literals, prefix
\* and infix operators, calls, index expressions and array literals.
RECURSIVE OperatorExpression(_)
OperatorExpression(n) ==
    CASE n.type \in {"Identifier", "IntegerLiteral", "BooleanLiteral"} -> TRUE
      [] n.type = "PrefixExpression" -> OperatorExpression(n.right)
      [] n.type = "InfixExpression" ->
            OperatorExpression(n.left) /\ OperatorExpression(n.right)
      [] n.type = "CallExpression" ->
            /\ OperatorExpression(n.fun)
            /\ ~n.args.isNull
            /\ \A i \in 1..Len(n.args.items) : OperatorExpression(n.args.items[i])
      [] n.type = "ArrayLiteral" ->
            /\ ~n.elements.isNull
            /\ \A i \in 1..Len(n.elements.items) :
                  OperatorExpression(n.elements.items[i])
      [] n.type = "IndexExpression" ->
            OperatorExpression(n.left) /\ OperatorExpression(n.index)
      [] OTHER -> FALSE

OperatorProgram(prog) ==
    /\ Len(prog.statements) = 1
    /\ prog.statements[1].type = "ExpressionStatement"
    /\ OperatorExpression(prog.statements[1].expression)

\* C7 amended: a source that parses without errors into a single expression
\* statement built from identifiers, integer and boolean literals, prefix
\* and infix operators, calls, index expressions and array literals
\* round-trips.
C7_RoundTripOperatorExpressions ==
    (/\ round = 2
     /\ outcome # "constructed"
     /\ first.errors = <<>>
     /\ OperatorProgram(first.program)) => RoundTrips

C7_Witness ==
    /\ round = 2
    /\ outcome = "returned"
    /\ first.errors = <<>>
    /\ OperatorProgram(first.program)
    /\ first.rendering = "((-f(x, (!y))) == ((v[(i * j)]) * (-c)))"
    /\ toString(program) = first.rendering

\* C10: parseProgram never throws.
C10_ParserDoesNotThrow == outcome # "thrown"

(***************************************************************************)
(* Evaluator claims                                                        *)
(***************************************************************************)
Events == 1..Len(heap.log)

Event(i) == heap.log[i]

IsEvent(i, kind) == Event(i).kind = kind

\* C1: when a top-level statement yields an Error, evaluate returns that
\* very Error and the evaluation ends there: no statement is evaluated and
\* no binding is added afterwards; and once the value expression of a let
\* has yielded an Error, no binding is added, by that let or by any other.
C1_ErrorShortCircuit ==
    status = "returned" =>
        /\ \A i \in Events :
              IsEvent(i, "topres") /\ IsA(Event(i).value, "MError") =>
                  /\ i = Len(heap.log)
                  /\ returned = Event(i).value
        /\ \A i \in Events :
              IsEvent(i, "letval") /\ IsA(Event(i).value, "MError") =>
                  \A j \in Events :
                      j > i => ~IsEvent(j, "set") /\ ~IsEvent(j, "stmt")
                                  /\ ~IsEvent(j, "top")

\* An Error came out of a let at top level, and of a let in a function
\* body, with statements left behind it.
C1_Witness ==
    /\ status = "returned"
    /\ IsA(returned, "MError")
    /\ \E i \in Events : IsEvent(i, "letval") /\ IsA(Event(i).value, "MError")
    /\ \E i \in Events : IsEvent(i, "topres") /\ Event(i).index < Len(program.statements)

\* C2: what evaluate returns is never a ReturnValue object.
C2_NeverReturnsReturnValue ==
    status = "returned" => ~IsA(returned, "MReturnValue")

\* C3: no environment binding, function argument, array element, hash
\* value or operand of an infix or prefix operator is a ReturnValue object.
C3_ReturnValueNeverFirstClass ==
    /\ \A e \in 1..Len(heap.envs) : \A n \in DOMAIN heap.envs[e].store :
          ~IsA(heap.envs[e].store[n], "MReturnValue")
    /\ \A a \in 1..Len(heap.arrays) : \A k \in 1..Len(heap.arrays[a]) :
          ~IsA(heap.arrays[a][k], "MReturnValue")
    /\ \A i \in Events :
          /\ IsEvent(i, "call") \/ IsEvent(i, "builtin") =>
                \A k \in 1..Len(Event(i).args) : ~IsA(Event(i).args[k], "MReturnValue")
          /\ IsEvent(i, "op") =>
                \A k \in 1..Len(Event(i).operands) :
                    ~IsA(Event(i).operands[k], "MReturnValue")
          /\ IsEvent(i, "hash") =>
                \A k \in 1..Len(Event(i).value.pairs) :
                    ~IsA(Event(i).value.pairs[k].pair.value, "MReturnValue")

\* The Environment in which the function literal was evaluated whose call
\* created the Environment env; 0 for an Environment no call created.
DefinitionEnv(env) ==
    IF \E i \in Events : IsEvent(i, "call") /\ Event(i).env = env
    THEN LET call == CHOOSE i \in Events : IsEvent(i, "call") /\ Event(i).env = env
             fn == CHOOSE i \in Events : IsEvent(i, "fn") /\ Event(i).ref = Event(call).fun
         IN  Event(fn).env
    ELSE 0

\* The first Environment that binds the name, from env along the
\* Environments of definition; 0 when none does.
RECURSIVE Lexical(_, _)
Lexical(env, boundIn) ==
    IF env = 0 THEN 0
    ELSE IF env \in boundIn THEN env
    ELSE Lexical(DefinitionEnv(env), boundIn)

MakeAdder ==
    "let newAdder = fn(x) { fn(y) { x + y } }; let addTwo = newAdder(2); addTwo(3);"

\* C4: every name looked up during a call that the call's own Environment
\* does not bind is found in the Environment where the function literal
\* was evaluated, or along that Environment's own chain of definition,
\* whatever the caller's Environment binds; and makeAdder(2)(3) is 5.
C4_ClosureResolvesInCapturedEnv ==
    /\ \A i \in Events :
          IsEvent(i, "get") => Event(i).foundIn = Lexical(Event(i).env, Event(i).boundIn)
    /\ source.text = MakeAdder /\ status = "returned" =>
          IsA(returned, "MInteger") /\ returned.value = Num(5)

\* A name is looked up in a call whose Environment does not bind it and is
\* found in the Environment of definition, which is not the global one,
\* while the global Environment and the caller's bind the name too.
C4_Witness ==
    /\ status = "returned"
    /\ \E i \in Events :
          /\ IsEvent(i, "get")
          /\ Event(i).foundIn \notin {0, 1, Event(i).env}
          /\ 1 \in Event(i).boundIn
          /\ \E e \in Event(i).boundIn : e > Event(i).foundIn

\* C5: once a return has been executed in the Environment of a function
\* call, no further statement of that call is evaluated and the call's
\* result is the payload of that return.
C5_ReturnEndsExactlyThatCall ==
    status = "returned" =>
        \A i \in Events :
            IsEvent(i, "return") /\ DefinitionEnv(Event(i).env) # 0 =>
                \A j \in Events :
                    j > i =>
                        /\ ~(IsEvent(j, "stmt") /\ Event(j).env = Event(i).env)
                        /\ IsEvent(j, "callret") /\ Event(j).env = Event(i).env =>
                              Same(Event(j).value, Event(i).value)

(***************************************************************************)
(* Operator claims                                                         *)
(***************************************************************************)
\* The applications of an infix operator that are over.
InfixResults == {i \in Events : IsEvent(i, "opres") /\ Len(Event(i).operands) = 2}

\* The applications of a prefix operator that are over.
PrefixResults == {i \in Events : IsEvent(i, "opres") /\ Len(Event(i).operands) = 1}

BothIntegers(i) ==
    IsA(Event(i).operands[1], "MInteger") /\ IsA(Event(i).operands[2], "MInteger")

\* obj is the instance canonical (TRUE, FALSE or NULL) itself.
Is(obj, canonical) ==
    ~IsNullish(obj) /\ obj.type = canonical.type /\ obj.ref = canonical.ref

\* Equality as the language defines it: Integers, Booleans and Strings by
\* type and value, every other object by identity.
Equal(a, b) ==
    IF IsMValue(a) /\ IsMValue(b)
    THEN a.type = b.type /\ a.value = b.value
    ELSE Same(a, b)

\* C11: on operands that are not both Integer, == is the canonical TRUE
\* when the operands are equal (Integer, Boolean and String by value, every
\* other object by identity) and the canonical FALSE otherwise, and != is
\* its negation.
C11_EqualityByValueOrIdentity ==
    \A i \in InfixResults :
        ~BothIntegers(i) =>
            /\ Event(i).operator = "==" =>
                  Is(Event(i).value,
                     IF Equal(Event(i).operands[1], Event(i).operands[2])
                     THEN TRUE_ ELSE FALSE_)
            /\ Event(i).operator = "!=" =>
                  Is(Event(i).value,
                     IF Equal(Event(i).operands[1], Event(i).operands[2])
                     THEN FALSE_ ELSE TRUE_)

\* The quotient of two integers, truncated toward zero.
Truncated(a, b) == Sign(a) * Sign(b) * (Abs(a) \div Abs(b))

\* C12: on Integers a and b with b # 0, a / b is the Integer of the quotient
\* truncated toward zero; +, - and * on Integers yield an Integer.
C12_IntegerDivisionTruncates ==
    \A i \in InfixResults :
        LET a == Event(i).operands[1]
            b == Event(i).operands[2]
        IN  BothIntegers(i) /\ IsInteger(a.value) /\ IsInteger(b.value) =>
                /\ Event(i).operator = "/" /\ b.value # Num(0) =>
                      /\ IsA(Event(i).value, "MInteger")
                      /\ Event(i).value.value = Num(Truncated(a.value.num, b.value.num))
                /\ Event(i).operator \in {"+", "-", "*"} =>
                      /\ IsA(Event(i).value, "MInteger")
                      /\ IsInteger(Event(i).value.value)

IsErrorWith(obj, message) == IsA(obj, "MError") /\ obj.message = message

\* C13: an infix operator other than == and != on operands that are not
\* both Integer yields the Error "type mismatch: L op R" when the operands'
\* types differ, the concatenation when both are Strings and the operator
\* is +, and the Error "unknown operator: L op R" otherwise.
C13_InfixOnOtherOperands ==
    \A i \in InfixResults :
        LET l == Event(i).operands[1]
            r == Event(i).operands[2]
            op == Event(i).operator
            names == typeDesc(l) \o " " \o op \o " " \o typeDesc(r)
        IN  ~BothIntegers(i) /\ op \notin {"==", "!="} =>
                IF l.type # r.type
                THEN IsErrorWith(Event(i).value, "type mismatch: " \o names)
                ELSE IF l.type = "MString" /\ op = "+"
                THEN /\ IsA(Event(i).value, "MString")
                     /\ Event(i).value.value = l.value \o r.value
                ELSE IsErrorWith(Event(i).value, "unknown operator: " \o names)

\* An operator was applied to a String and an Integer, and evaluate
\* returned the Error of that application.
C13_Witness ==
    /\ status = "returned"
    /\ \E i \in InfixResults :
          /\ Event(i).operator \in {"+", "<"}
          /\ Event(i).operands[1].type = "MString"
          /\ Event(i).operands[2].type = "MInteger"
          /\ returned = Event(i).value
          /\ IsA(returned, "MError")

Falsy(x) == Is(x, FALSE_) \/ Is(x, NULL)

\* C14: !x is TRUE when x is FALSE or NULL and FALSE for every other
\* object; an if-expression evaluates its consequence exactly when its
\* condition is such another object, and otherwise evaluates its alternative
\* when it has one and yields NULL when it has none.
C14_TruthinessOfBangAndIf ==
    /\ \A i \in PrefixResults :
          Event(i).operator = "!" =>
              Is(Event(i).value, IF Falsy(Event(i).operands[1]) THEN TRUE_ ELSE FALSE_)
    /\ \A i \in Events :
          IsEvent(i, "if") =>
              IF ~Falsy(Event(i).condition) THEN Event(i).branch = "consequence"
              ELSE IF Event(i).alternative THEN Event(i).branch = "alternative"
              ELSE Event(i).branch = "none" /\ Is(Event(i).value, NULL)

\* An if-expression with an alternative took its consequence on the
\* Integer 0.
C14_Witness ==
    /\ status = "returned"
    /\ \E i \in Events :
          /\ IsEvent(i, "if")
          /\ IsA(Event(i).condition, "MInteger")
          /\ Event(i).condition.value = Num(0)
          /\ Event(i).alternative
          /\ Event(i).branch = "consequence"
          /\ returned = Event(i).value

(***************************************************************************)
(* Claims about the objects an evaluation produces                         *)
(***************************************************************************)
RECURSIVE Flatten(_)
Flatten(seqs) == IF seqs = <<>> THEN <<>> ELSE Head(seqs) \o Flatten(Tail(seqs))

\* An object and the objects it holds: a ReturnValue its payload, a Hash
\* the keys and values of its pairs.
RECURSIVE Parts(_)
Parts(obj) ==
    <<obj>> \o
    (CASE IsA(obj, "MReturnValue") -> Parts(obj.value)
       [] IsA(obj, "MHash") ->
             Flatten([k \in 1..Len(obj.pairs) |->
                         Parts(obj.pairs[k].pair.key) \o Parts(obj.pairs[k].pair.value)])
       [] OTHER -> <<>>)

RECURSIVE StoreValues(_, _)
StoreValues(store, names) ==
    IF names = {} THEN <<>>
    ELSE LET n == CHOOSE m \in names : TRUE
         IN  <<store[n]>> \o StoreValues(store, names \ {n})

\* The objects an event of the log names.
EventObjects(e) ==
    CASE e.kind \in {"set", "letval", "return", "callret", "topres", "hash"} -> <<e.value>>
      [] e.kind = "op" -> e.operands
      [] e.kind = "opres" -> Append(e.operands, e.value)
      [] e.kind \in {"call", "builtin"} -> e.args
      [] e.kind = "hashkey" -> <<e.key>>
      [] e.kind = "if" -> <<e.condition, e.value>>
      [] e.kind = "index" -> <<e.left, e.index, e.value>> \o e.elements
      [] e.kind = "array" -> Append(e.elements, e.value)
      [] OTHER -> <<>>

\* Every object the evaluation has produced so far: what evaluate returned,
\* the bindings of the Environments, the elements of the arrays, the
\* operands, arguments and results the log names, and the objects they hold.
Produced ==
    LET direct ==
            <<returned>>
            \o Flatten([e \in 1..Len(heap.envs) |->
                           StoreValues(heap.envs[e].store, DOMAIN heap.envs[e].store)])
            \o Flatten(heap.arrays)
            \o Flatten([i \in Events |-> EventObjects(Event(i))])
    IN  Flatten([k \in 1..Len(direct) |-> Parts(direct[k])])

\* C15: every Boolean object an evaluation produces is the instance TRUE
\* or the instance FALSE, the one of its value, and every Null object is the
\* instance NULL; two Boolean objects are the same object exactly when they
\* have the same value.
C15_CanonicalBooleansAndNull ==
    LET objects == Produced
    IN  /\ \A k \in 1..Len(objects) :
              /\ IsA(objects[k], "MBoolean") =>
                    Is(objects[k], IF objects[k].value THEN TRUE_ ELSE FALSE_)
              /\ IsA(objects[k], "MNull") => Is(objects[k], NULL)
        /\ \A k, l \in 1..Len(objects) :
              IsA(objects[k], "MBoolean") /\ IsA(objects[l], "MBoolean") =>
                  (Same(objects[k], objects[l]) <=> objects[k].value = objects[l].value)

\* Booleans came out of a comparison, of ! and of a builtin, and are bound
\* to a name, elements of an array and key and value of a Hash.
C15_Witness ==
    /\ status = "returned"
    /\ IsA(returned, "MHash")
    /\ \E k \in 1..Len(returned.pairs) :
          /\ IsA(returned.pairs[k].pair.key, "MBoolean")
          /\ IsA(returned.pairs[k].pair.value, "MBoolean")
    /\ \E e \in 1..Len(heap.envs) : \E n \in DOMAIN heap.envs[e].store :
          IsA(heap.envs[e].store[n], "MBoolean")
    /\ \E a \in 1..Len(heap.arrays) : \E k \in 1..Len(heap.arrays[a]) :
          IsA(heap.arrays[a][k], "MBoolean")
    /\ \E i \in Events :
          IsEvent(i, "opres") /\ Event(i).operator = "<" /\ IsA(Event(i).value, "MBoolean")
    /\ \E i \in Events :
          IsEvent(i, "opres") /\ Event(i).operator = "!" /\ IsA(Event(i).value, "MBoolean")
    /\ \E i \in Events : IsEvent(i, "builtin")

(***************************************************************************)
(* Environment claims.  A store binds a name when it holds an object for   *)
(* it.                                                                     *)
(***************************************************************************)
Binds(envs, e, n) == StoreGet(envs[e].store, n) # Undefined

\* The names some store of envs holds.
Names(envs) == UNION {DOMAIN envs[e].store : e \in 1..Len(envs)}

\* The store of e holds the same for every name in both lists of
\* Environments.
SameStore(envs1, envs2, e) ==
    \A n \in Names(envs1) \cup Names(envs2) :
        Same(StoreGet(envs1[e].store, n), StoreGet(envs2[e].store, n))

\* The first Environment that binds the name, from env along the outer
\* Environments; 0 when none does.
RECURSIVE Innermost(_, _, _)
Innermost(envs, env, n) ==
    IF env = 0 THEN 0
    ELSE IF Binds(envs, env, n) THEN env
    ELSE Innermost(envs, envs[env].outer, n)

\* C16: set changes the binding of its name in the store of its own
\* Environment and nothing else in any Environment; get finds the binding of
\* the first Environment that binds the name along the outer Environments,
\* and nothing when none does; and when a call returns, every Environment
\* that existed before the call binds what it bound when the call began.
C16_SetWritesInnermostOnly ==
    /\ \A i \in Events :
          IsEvent(i, "set") =>
              LET before == Event(i).before
                  after == Event(i).after
              IN  /\ Len(after) = Len(before)
                  /\ Same(StoreGet(after[Event(i).env].store, Event(i).name),
                          Event(i).value)
                  /\ \A e \in 1..Len(before) :
                        /\ after[e].outer = before[e].outer
                        /\ \A n \in Names(before) \cup Names(after) :
                              e # Event(i).env \/ n # Event(i).name =>
                                  Same(StoreGet(after[e].store, n),
                                       StoreGet(before[e].store, n))
    /\ \A i \in Events :
          IsEvent(i, "get") =>
              LET found == Innermost(Event(i).envs, Event(i).env, Event(i).name)
              IN  /\ Event(i).foundIn = found
                  /\ IF found = 0 THEN Event(i).value = Null
                     ELSE Same(Event(i).value,
                               Event(i).envs[found].store[Event(i).name])
    /\ \A i, j \in Events :
          /\ IsEvent(i, "call") /\ IsEvent(j, "callret")
          /\ Event(j).env = Event(i).env
          => \A e \in 1..(Event(i).env - 1) :
                 SameStore(Event(i).envs, Event(j).envs, e)

\* A call bound, by a parameter and by a let, a name that the global
\* Environment binds too; after the call the name was looked up in the
\* global Environment and found what it was bound to before the call.
C16_Witness ==
    /\ status = "returned"
    /\ \E i, j, k, l \in Events :
          /\ i < j /\ j < k /\ k < l
          /\ IsEvent(i, "set") /\ IsEvent(j, "set") /\ IsEvent(k, "callret")
          /\ IsEvent(l, "get")
          /\ Event(i).env > 1 /\ Event(j).env = Event(i).env
          /\ Event(k).env = Event(i).env
          /\ Event(j).name = Event(i).name /\ Event(l).name = Event(i).name
          /\ Binds(Event(i).before, 1, Event(i).name)
          /\ Event(l).env = 1 /\ Event(l).foundIn = 1
          /\ Same(Event(l).value, Event(i).before[1].store[Event(i).name])
          /\ ~Same(Event(l).value, Event(j).value)

(***************************************************************************)
(* Index and hash claims                                                   *)
(***************************************************************************)
\* The index expressions whose operands were evaluated and that are over.
Indexings == {i \in Events : IsEvent(i, "index")}

\* C17: an Array under an Integer i yields its element at position i when
\* 0 <= i <= len - 1 and NULL otherwise; an object that is neither an Array
\* under an Integer nor a Hash yields the Error
\* "index operator not supported: <type of the left operand>".
C17_ArrayIndex ==
    \A i \in Indexings :
        LET left == Event(i).left
            index == Event(i).index
            elements == Event(i).elements
        IN  IF IsA(left, "MArray") /\ IsA(index, "MInteger")
            THEN IF ~NumLess(index.value, Num(0))
                    /\ ~NumLess(Num(Len(elements) - 1), index.value)
                 THEN \E k \in 1..Len(elements) :
                          /\ index.value = Num(k - 1)
                          /\ Same(Event(i).value, elements[k])
                 ELSE Is(Event(i).value, NULL)
            ELSE ~IsA(left, "MHash") =>
                     IsErrorWith(Event(i).value,
                                 "index operator not supported: " \o typeDesc(left))

\* The entries of pairs whose key has the type and the value of key.
Entries(pairs, key) == {k \in 1..Len(pairs) : Equal(pairs[k].pair.key, key)}

\* C18: every pair a hash literal evaluates is stored with its key object
\* and its value, as the one entry of its key's type and value, and leaves
\* the other entries as they were; the Hash the literal yields holds the
\* entries stored by its last pair; a Hash under a hashable index yields the
\* value of the entry whose key has the type and the value of the index, and
\* NULL when there is none.
C18_HashIndex ==
    /\ \A i \in Events :
          IsEvent(i, "hashpair") =>
              LET after == Event(i).after
                  before == Event(i).before
              IN  /\ \E k \in 1..Len(after) :
                        /\ Entries(after, Event(i).key) = {k}
                        /\ Same(after[k].pair.key, Event(i).key)
                        /\ Same(after[k].pair.value, Event(i).value)
                  /\ \A k \in 1..Len(before) :
                        ~Equal(before[k].pair.key, Event(i).key) =>
                            \E l \in 1..Len(after) :
                                /\ Same(after[l].pair.key, before[k].pair.key)
                                /\ Same(after[l].pair.value, before[k].pair.value)
                  /\ Len(after) <= Len(before) + 1
    /\ \A i \in Events :
          IsEvent(i, "hash") /\ Event(i).value.pairs # <<>> =>
              /\ i > 1 /\ IsEvent(i - 1, "hashpair")
              /\ Len(Event(i).value.pairs) = Len(Event(i - 1).after)
              /\ \A k \in 1..Len(Event(i).value.pairs) :
                    /\ Same(Event(i).value.pairs[k].pair.key,
                            Event(i - 1).after[k].pair.key)
                    /\ Same(Event(i).value.pairs[k].pair.value,
                            Event(i - 1).after[k].pair.value)
    /\ \A i \in Indexings :
          IsA(Event(i).left, "MHash") /\ IsMValue(Event(i).index) =>
              LET stored == Entries(Event(i).left.pairs, Event(i).index)
              IN  IF stored = {} THEN Is(Event(i).value, NULL)
                  ELSE \A k \in stored :
                           Same(Event(i).value, Event(i).left.pairs[k].pair.value)

\* A Hash of two entries was indexed by a key that is equal to the key of
\* its second entry and is another object, and evaluate returned the value
\* of that entry.
C18_Witness ==
    /\ status = "returned"
    /\ \E i \in Indexings :
          /\ IsA(Event(i).left, "MHash")
          /\ Len(Event(i).left.pairs) = 2
          /\ IsA(Event(i).index, "MString")
          /\ Equal(Event(i).left.pairs[2].pair.key, Event(i).index)
          /\ ~Same(Event(i).left.pairs[2].pair.key, Event(i).index)
          /\ Same(returned, Event(i).left.pairs[2].pair.value)
          /\ ~Is(returned, NULL)

\* C19: an index of a Hash that is not hashable yields the Error
\* "unusable as a hash key: <type>"; a key of a hash literal that is not
\* hashable makes evaluate return the Error of the same message, and no
\* value expression of a pair is evaluated after that key.
C19_UnusableHashKeyMessage ==
    /\ \A i \in Indexings :
          IsA(Event(i).left, "MHash") /\ ~IsMValue(Event(i).index) =>
              IsErrorWith(Event(i).value,
                          "unusable as a hash key: " \o typeDesc(Event(i).index))
    /\ status = "returned" =>
          \A i \in Events :
              IsEvent(i, "hashkey") /\ ~IsMValue(Event(i).key) =>
                  /\ IsErrorWith(returned,
                                 "unusable as a hash key: " \o typeDesc(Event(i).key))
                  /\ \A j \in Events : j > i => ~IsEvent(j, "hashvalue")

\* The hashable objects that were keys of a hash literal or indexes.
Keys ==
    {i \in Events : IsEvent(i, "hashkey") /\ IsMValue(Event(i).key)}
        \cup {i \in Indexings : IsMValue(Event(i).index)}

KeyOf(i) == IF IsEvent(i, "hashkey") THEN Event(i).key ELSE Event(i).index

\* C20: two hashable objects have the same hash key exactly when they have
\* the same type and the same value.
C20_HashKeyCollisionFree ==
    \A i, j \in Keys :
        hashKey(KeyOf(i)) = hashKey(KeyOf(j)) <=> Equal(KeyOf(i), KeyOf(j))

\* The Integer 1 and the String "1" were keys, and so were two Integers 1
\* that are two objects.
C20_Witness ==
    /\ status = "returned"
    /\ \E i, j, k \in Keys :
          /\ IsA(KeyOf(i), "MInteger") /\ KeyOf(i).value = Num(1)
          /\ IsA(KeyOf(j), "MString") /\ KeyOf(j).value = "1"
          /\ IsA(KeyOf(k), "MInteger") /\ KeyOf(k).value = Num(1)
          /\ ~Same(KeyOf(i), KeyOf(k))

(***************************************************************************)
(* Builtin claims                                                          *)
(***************************************************************************)
\* The calls of a builtin that are over.
BuiltinResults == {i \in Events : IsEvent(i, "builtinres")}

\* The number of arguments the builtin takes.
Wanted(name) == IF name = "push" THEN 2 ELSE 1

\* C21: a builtin called with another number of arguments than it takes
\* yields the Error "wrong number of arguments. got=<N>, want=<E>" whatever
\* the arguments are; with the right number, first, last, rest and push on
\* a first argument that is not an Array yield the Error "argument to
\* '<name>' must be ARRAY, got <Type>", and len on an argument that is
\* neither a String nor an Array yields "argument to 'len' not supported,
\* got <Type>"; no other call yields an Error.
C21_BuiltinArgumentChecks ==
    \A i \in BuiltinResults :
        LET name == Event(i).fn
            args == Event(i).args
        IN  IF Len(args) # Wanted(name)
            THEN IsErrorWith(Event(i).value,
                             "wrong number of arguments. got=" \o NatToString(Len(args))
                                 \o ", want=" \o NatToString(Wanted(name)))
            ELSE IF name # "len" /\ ~IsA(args[1], "MArray")
            THEN IsErrorWith(Event(i).value,
                             "argument to '" \o name \o "' must be ARRAY, got "
                                 \o typeDesc(args[1]))
            ELSE IF name = "len" /\ ~IsA(args[1], "MArray") /\ ~IsA(args[1], "MString")
            THEN IsErrorWith(Event(i).value,
                             "argument to 'len' not supported, got " \o typeDesc(args[1]))
            ELSE ~IsA(Event(i).value, "MError")

\* push was called with one argument that is not an Array, and evaluate
\* returned the Error of the number of arguments.
C21_Witness ==
    /\ status = "returned"
    /\ \E i \in BuiltinResults :
          /\ Event(i).fn = "push"
          /\ Len(Event(i).args) = 1
          /\ ~IsA(Event(i).args[1], "MArray")
          /\ returned = Event(i).value
          /\ IsErrorWith(returned, "wrong number of arguments. got=1, want=2")

\* The two lists hold the same objects in the same order.
SameElements(xs, ys) ==
    Len(xs) = Len(ys) /\ \A k \in 1..Len(xs) : Same(xs[k], ys[k])

RECURSIVE JoinInspect(_)
JoinInspect(elements) ==
    IF elements = <<>> THEN ""
    ELSE IF Len(elements) = 1 THEN MValueInspect(elements[1])
    ELSE MValueInspect(elements[1]) \o ", " \o JoinInspect(Tail(elements))

\* C23: inspect() of an Array of Integers, Booleans and Strings is
\* "[e1, e2, ...]", each ei the inspect() rendering of the element:
\* the decimal digits, true or false, the content of the string.
C23_ArrayInspectUsesElementInspect ==
    output # Null /\ IsA(returned, "MArray")
    /\ (\A k \in 1..Len(heap.arrays[returned.elements]) :
            IsMValue(heap.arrays[returned.elements][k]))
    => /\ ~output.thrown
       /\ output.text = "[" \o JoinInspect(heap.arrays[returned.elements]) \o "]"

(***************************************************************************)
(* Termination of evaluate                                                 *)
(***************************************************************************)
Ran == outcome = "returned" /\ parser.errors = <<>> /\ status # "idle"

\* The calls of functions that have not returned.
OpenCalls ==
    Cardinality({i \in Events : Event(i).kind = "call"})
        - Cardinality({i \in Events : Event(i).kind = "callret"})

\* C24 as stated: evaluate returns a result for every program that parsed
\* without errors.
C24_EvaluateAlwaysReturns == Ran => status = "returned"

\* C24: evaluate of a program that parsed without errors returns a result
\* unless the calls nest deeper than the call stack holds, and then it ends
\* with the stack exhausted; it never ends in any other way.
C24_EvaluateReturnsUnlessStackExhausted ==
    Ran => \/ status = "returned"
           \/ status = "overflow" /\ OpenCalls = MaxDepth

\* A function called again while a call of it is running, and the
\* evaluation returned.
C24_Witness ==
    /\ Ran /\ status = "returned"
    /\ \E i, j \in Events :
          /\ i < j
          /\ Event(i).kind = "call" /\ Event(j).kind = "call"
          /\ Event(i).fun = Event(j).fun
          /\ \A k \in i..j : Event(k).kind = "callret" => Event(k).env # Event(i).env

(***************************************************************************)
(* Order of evaluation                                                     *)
(***************************************************************************)
\* The events of the last statement of the program.
LastStatement ==
    LET start == CHOOSE i \in Events :
                    /\ Event(i).kind = "top"
                    /\ \A j \in Events : Event(j).kind = "top" => j <= i
    IN  SubSeq(heap.log, start + 1, Len(heap.log))

\* What the evaluation did at the top level: the lookups in the global
\* Environment under their names, and a mark for each function or builtin
\* applied, operator applied, index taken, pair stored and literal made.
Marked(event) ==
    \/ event.kind \in {"call", "builtin", "op", "index", "array", "hash", "hashpair"}
    \/ event.kind = "get" /\ event.env = 1

Mark(event) ==
    CASE event.kind = "get" -> event.name
      [] event.kind \in {"call", "builtin"} -> "()"
      [] event.kind = "op" -> event.operator
      [] event.kind = "index" -> "@"
      [] event.kind = "array" -> "[]"
      [] event.kind = "hash" -> "{}"
      [] event.kind = "hashpair" -> ":"

Order ==
    LET marked == SelectSeq(LastStatement, Marked)
    IN  [i \in 1..Len(marked) |-> Mark(marked[i])]

Fails(shape) == \E i \in 1..Len(shape) : shape[i] = Unbound

\* The shape up to its first unbound name.
RECURSIVE UpToUnbound(_)
UpToUnbound(shape) ==
    IF shape = <<>> THEN <<>>
    ELSE IF Head(shape) = Unbound THEN <<Unbound>>
    ELSE <<Head(shape)>> \o UpToUnbound(Tail(shape))

Ordering == status = "returned" /\ source.shape # Null

\* C25: the callee is evaluated before the arguments and the arguments left
\* to right, array elements left to right, hash pairs in source order with
\* the key before the value, the indexed expression before the index and
\* the left operand before the right; the first operand that evaluates to
\* an Error is the result, no later operand is evaluated and nothing is
\* applied to the operands.
C25_EvaluationOrderAndShortCircuit ==
    Ordering =>
        /\ Order = UpToUnbound(source.shape)
        /\ Fails(source.shape) =>
              IsErrorWith(returned, "identifier not found: " \o Unbound)

\* A call whose callee is a function and whose argument is not bound.
C25_Witness ==
    /\ Ordering
    /\ Len(source.shape) = 4
    /\ source.shape[1] = "f" /\ source.shape[2] = Unbound /\ source.shape[4] = "()"
    /\ IsErrorWith(returned, "identifier not found: " \o Unbound)

(***************************************************************************)
(* Calls with more or fewer arguments than parameters                      *)
(***************************************************************************)
Calls == {i \in Events : Event(i).kind = "call"}

ParameterNames(event) ==
    IF event.parameters.isNull THEN <<>>
    ELSE [i \in 1..Len(event.parameters.items) |-> event.parameters.items[i].value]

\* The Environment of a call binds each parameter that has an argument to
\* that argument, and nothing else.
BindsPositionally(event) ==
    LET names == ParameterNames(event)
        store == event.envs[event.env].store
    IN  /\ \A n \in DOMAIN store :
              store[n] # Undefined => \E i \in 1..Len(names) : names[i] = n
        /\ \A i \in 1..Len(names) :
              IF i <= Len(event.args)
              THEN Same(StoreGet(store, names[i]), event.args[i])
              ELSE StoreGet(store, names[i]) = Undefined

\* Where the parameter of this name stands in the parameter list, 0 if
\* the name is no parameter.
Position(name, parameters) ==
    IF \E i \in 1..Len(parameters) : parameters[i] = name
    THEN CHOOSE i \in 1..Len(parameters) : parameters[i] = name
    ELSE 0

IsIntegerOf(obj, n) == IsA(obj, "MInteger") /\ obj.value = Num(n)

\* What the call of the source's function has to give.
ArityResult(shape, obj) ==
    LET position == Position(shape.body, shape.parameters)
    IN  IF shape.body = "7" THEN IsIntegerOf(obj, 7)
        ELSE IF position # 0 /\ position <= shape.arguments THEN IsIntegerOf(obj, position)
        ELSE IF shape.body = "x" /\ shape.outer THEN IsIntegerOf(obj, 5)
        ELSE IsErrorWith(obj, "identifier not found: " \o shape.body)

Applying == status = "returned" /\ source.shape # Null

\* C26: a function called with more or fewer arguments than it has
\* parameters is applied all the same: the parameters are bound to the
\* arguments by position, surplus arguments are ignored, the body is
\* evaluated, and a parameter without an argument reads as a name the call
\* does not bind, which is the outer binding of the name if there is one
\* and the Error "identifier not found: <name>" otherwise.
C26_ArityMismatchIsNoError ==
    Applying =>
        /\ Cardinality(Calls) = 1
        /\ \A i \in Calls :
              /\ BindsPositionally(Event(i))
              /\ Len(Event(i).args) = source.shape.arguments
              /\ ParameterNames(Event(i)) = source.shape.parameters
        /\ ArityResult(source.shape, returned)

\* A call with fewer arguments than parameters whose body names the
\* parameter left without one, resolved by the global binding of the name.
C26_Witness ==
    /\ Applying
    /\ source.shape.arguments < Len(source.shape.parameters)
    /\ Position(source.shape.body, source.shape.parameters) > source.shape.arguments
    /\ source.shape.outer
    /\ IsIntegerOf(returned, 5)

(***************************************************************************)
(* The result of evaluate                                                  *)
(***************************************************************************)
\* C27: evaluate of a program that parsed without errors returns a runtime
\* object, never the host's null or undefined: also for the empty program,
\* for an if or a call whose block has no statements, and for an expression
\* with such a call as operand.
C27_EvaluateReturnsAnObject ==
    outcome = "returned" /\ parser.errors = <<>> /\ status = "returned"
        => ~IsNullish(returned)

(***************************************************************************)
(* Termination of parseProgram                                             *)
(***************************************************************************)
\* C28: parseProgram ends on every source, with ILLEGAL characters or not:
\* no statement loop comes back to the input it started an iteration on.
C28_ParseProgramTerminates ==
    outcome # "constructed" => outcome \in {"returned", "thrown"}

(***************************************************************************)
(* Functions and the Environments of their calls                           *)
(***************************************************************************)
\* The calls running when event k is logged.
OpenAt(k) ==
    {i \in Calls : i < k /\ \A j \in (i + 1)..(k - 1) :
                               IsEvent(j, "callret") => Event(j).env # Event(i).env}

\* The Environment of the innermost call running at event k, the global
\* Environment when none is.
CurrentEnv(k) ==
    IF OpenAt(k) = {} THEN 1
    ELSE Event(CHOOSE i \in OpenAt(k) : \A j \in OpenAt(k) : j <= i).env

\* The binding of the name of lookup i in the Environment that gave it was
\* last written by this event.
LastSet(i) ==
    CHOOSE s \in 1..(i - 1) :
        /\ IsEvent(s, "set")
        /\ Event(s).env = Event(i).foundIn /\ Event(s).name = Event(i).name
        /\ \A t \in (s + 1)..(i - 1) :
              IsEvent(t, "set") =>
                  Event(t).env # Event(i).foundIn \/ Event(t).name # Event(i).name

\* The event of the function literal that made the function of call i.
Literal(i) == CHOOSE l \in Events : IsEvent(l, "fn") /\ Event(l).ref = Event(i).fun

Late == "let f = fn() { y }; let y = 3; f()"

Recursive == "let f = fn(n) { if (n < 1) { return 0 }; let m = f(n - 1); m + n }; f(2)"

Rebound == "let c = fn() { let k = 1; let g = fn() { k }; let k = 2; g() }; c()"

\* C29: a function holds the Environment its literal was evaluated in, not
\* a copy of it: every call gets a new Environment of its own whose outer
\* one is that Environment, binding the parameters only; a lookup gives
\* what the name is bound to at the time of the lookup, also when it was
\* bound after the literal was evaluated, as the function's own name is;
\* and lookups and bindings made while a call runs start in, or go to, the
\* Environment of that call, never that of another call.
C29_EnvironmentByReferenceFreshPerCall ==
    /\ \A i \in Calls :
          /\ Event(i).envs[Event(i).env].outer = Event(Literal(i)).env
          /\ Event(i).env = Len(Event(i).envs)
          /\ \A j \in Calls : j < i => Event(j).env < Event(i).env
          /\ BindsPositionally(Event(i))
    /\ \A i \in Events :
          IsEvent(i, "get") =>
              /\ Event(i).env = CurrentEnv(i)
              /\ Event(i).foundIn # 0 => Same(Event(i).value, Event(LastSet(i)).value)
    /\ \A i \in Events :
          IsEvent(i, "set") =>
              \/ Event(i).env = CurrentEnv(i)
              \/ /\ Event(i).env = Len(Event(i).before)
                 /\ \A j \in Calls : j < i => Event(j).env < Event(i).env
    /\ status = "returned" =>
          /\ source.text = Late => IsIntegerOf(returned, 3)
          /\ source.text = Recursive => IsIntegerOf(returned, 3)
          /\ source.text = Rebound => IsIntegerOf(returned, 2)

\* A call of the function inside a call of it looked up the function's
\* name, bound after the literal was evaluated, and found the function; and
\* the outer call then read its own parameter, which the inner call had
\* bound to another value in its own Environment.
C29_Witness ==
    /\ status = "returned"
    /\ \E i \in Calls : \E j \in Calls :
          /\ i < j /\ Event(i).fun = Event(j).fun
          /\ \E g \in (i + 1)..(j - 1) :
                /\ IsEvent(g, "get") /\ Event(g).env = Event(i).env
                /\ IsA(Event(g).value, "MFunction") /\ Event(g).value.ref = Event(i).fun
                /\ LastSet(g) > Literal(i)
          /\ \E k \in (j + 1)..Len(heap.log) :
                /\ IsEvent(k, "callret") /\ Event(k).env = Event(j).env
                /\ \E h \in (k + 1)..Len(heap.log) :
                      /\ IsEvent(h, "get") /\ Event(h).env = Event(i).env
                      /\ Event(h).foundIn = Event(i).env
                      /\ Binds(Event(k).envs, Event(j).env, Event(h).name)
                      /\ ~Same(Event(h).value,
                               StoreGet(Event(k).envs[Event(j).env].store, Event(h).name))

(***************************************************************************)
(* Hash literals with repeated keys                                        *)
(***************************************************************************)
\* The hash literals that yielded a Hash.
Hashes == {i \in Events : IsEvent(i, "hash")}

\* The event that stored pair n of the literal of Hash event h: no key or
\* value of these literals is a literal with pairs of its own.
PairEvent(h, n) ==
    CHOOSE p \in 1..(h - 1) :
        /\ IsEvent(p, "hashpair") /\ Event(p).index = n
        /\ \A q \in (p + 1)..(h - 1) : ~(IsEvent(q, "hashpair") /\ Event(q).index = n)

Stores(h, n) ==
    \E p \in 1..(h - 1) : IsEvent(p, "hashpair") /\ Event(p).index = n

\* The last pair of the literal with the hash key of pair n.
LastOfKey(h, n) ==
    CHOOSE m \in n..Event(h).size :
        /\ hashKey(Event(PairEvent(h, m)).key) = hashKey(Event(PairEvent(h, n)).key)
        /\ \A l \in (m + 1)..Event(h).size :
              hashKey(Event(PairEvent(h, l)).key) # hashKey(Event(PairEvent(h, n)).key)

\* C30: a hash literal evaluates all its pairs in source order, whether
\* their keys have the same hash key or not; the Hash holds one entry for
\* each hash key, with the key object and the value of the last pair of
\* that hash key, and as many entries as the keys have distinct hash keys.
C30_RepeatedKeysLastPairWins ==
    \A h \in Hashes :
        LET size == Event(h).size
            entries == Event(h).value.pairs
        IN  /\ \A n \in 1..size : Stores(h, n)
            /\ \A n \in 1..(size - 1) : PairEvent(h, n) < PairEvent(h, n + 1)
            /\ \A n \in 1..size :
                  \E k \in 1..Len(entries) :
                      /\ \A l \in 1..Len(entries) :
                            hashKey(entries[l].pair.key)
                                = hashKey(Event(PairEvent(h, n)).key) <=> l = k
                      /\ Same(entries[k].pair.key, Event(PairEvent(h, LastOfKey(h, n))).key)
                      /\ Same(entries[k].pair.value,
                              Event(PairEvent(h, LastOfKey(h, n))).value)
            /\ Len(entries)
                  = Cardinality({hashKey(Event(PairEvent(h, n)).key) : n \in 1..size})

\* A literal of three pairs, the first and the last of the same hash key and
\* of two key objects, yielded a Hash of two entries whose first entry holds
\* the key object and the value of the last pair.
C30_Witness ==
    /\ status = "returned"
    /\ \E h \in Hashes :
          /\ Event(h).size = 3
          /\ Len(Event(h).value.pairs) = 2
          /\ hashKey(Event(PairEvent(h, 1)).key) = hashKey(Event(PairEvent(h, 3)).key)
          /\ ~Same(Event(PairEvent(h, 1)).key, Event(PairEvent(h, 3)).key)
          /\ Same(Event(h).value.pairs[1].pair.key, Event(PairEvent(h, 3)).key)
          /\ Same(Event(h).value.pairs[1].pair.value, Event(PairEvent(h, 3)).value)
          /\ Same(returned, Event(h).value)

=============================================================================
